---- MODULE Spec2Model ----
(***************************************************************************)
(* The auto-typing tool: the pause-directive parser (src/src/pause_        *)
(* directive.py), the pattern matcher (src/pattern_matcher.py with the     *)
(* tables of src/src/code_patterns.py) and the typing scheduler of         *)
(* src/src/main.py (auto_type on its scan thread, and the start / pause /  *)
(* continue / stop handlers on the GUI thread).                            *)
(*                                                                         *)
(* A text is a tuple of one-character strings.  Positions are 0-based, as  *)
(* in the source: the character at position p of text is text[p + 1].      *)
(* Durations are in milliseconds.                                          *)
(***************************************************************************)
EXTENDS Integers, Sequences, FiniteSets, TLC

\* ---- characters ----
Digits == {"0","1","2","3","4","5","6","7","8","9"}

Letters ==
  {"a","b","c","d","e","f","g","h","i","j","k","l","m","n","o","p","q","r","s","t",
   "u","v","w","x","y","z","A","B","C","D","E","F","G","H","I","J","K","L","M","N",
   "O","P","Q","R","S","T","U","V","W","X","Y","Z"}

\* str.isalnum() on one character.
IsAlnum(c) == c \in Letters \cup Digits

\* The regex class \w.
IsWordChar(c) == IsAlnum(c) \/ c = "_"

\* The regex class \d.
IsDigit(c) == c \in Digits

\* The characters str.strip() removes.
IsSpace(c) == c \in {" ", "\t", "\n", "\r"}

DigitValue(c) ==
  CASE c = "0" -> 0 [] c = "1" -> 1 [] c = "2" -> 2 [] c = "3" -> 3 [] c = "4" -> 4
    [] c = "5" -> 5 [] c = "6" -> 6 [] c = "7" -> 7 [] c = "8" -> 8 [] c = "9" -> 9

\* text[p] of the source, for 0 <= p < len(text).
CharAt(text, p) == text[p + 1]

\* text[a:b] of the source.
Slice(text, a, b) == SubSeq(text, a + 1, b)

\* The literal tok occurs in text at position p.
HasPrefixAt(text, p, tok) ==
  /\ p >= 0
  /\ p + Len(tok) <= Len(text)
  /\ \A k \in 1..Len(tok) : text[p + k] = tok[k]

RECURSIVE LStrip(_)
LStrip(s) == IF s # <<>> /\ IsSpace(Head(s)) THEN LStrip(Tail(s)) ELSE s

RECURSIVE RStrip(_)
RStrip(s) ==
  IF s # <<>> /\ IsSpace(s[Len(s)]) THEN RStrip(SubSeq(s, 1, Len(s) - 1)) ELSE s

\* str.strip()
Strip(s) == RStrip(LStrip(s))

\* ---- code_patterns.py: the pattern tables ----
\* A token is the tuple of its characters; speed_multiplier is in tenths,
\* pause_before and pause_after are in milliseconds. The categories of a
\* table are listed in the dictionary's insertion order.

LANGUAGE_PATTERNS_java ==
  <<
    [ category |-> "keywords",
      patterns |-> <<
          <<"p","u","b","l","i","c">>, <<"p","r","i","v","a","t","e">>,
          <<"p","r","o","t","e","c","t","e","d">>, <<"s","t","a","t","i","c">>,
          <<"f","i","n","a","l">>, <<"v","o","i","d">>, <<"i","n","t">>,
          <<"S","t","r","i","n","g">>, <<"b","o","o","l","e","a","n">>, <<"c","l","a","s","s">>,
          <<"i","n","t","e","r","f","a","c","e">>, <<"e","x","t","e","n","d","s">>,
          <<"i","m","p","l","e","m","e","n","t","s">>, <<"i","m","p","o","r","t">>,
          <<"p","a","c","k","a","g","e">>, <<"t","r","y">>, <<"c","a","t","c","h">>,
          <<"f","i","n","a","l","l","y">>, <<"t","h","r","o","w">>, <<"t","h","r","o","w","s">>,
          <<"n","e","w">>, <<"t","h","i","s">>, <<"s","u","p","e","r">>,
          <<"r","e","t","u","r","n">>, <<"i","f">>, <<"e","l","s","e">>, <<"w","h","i","l","e">>,
          <<"f","o","r">>, <<"d","o">>, <<"s","w","i","t","c","h">>, <<"c","a","s","e">>,
          <<"b","r","e","a","k">>, <<"c","o","n","t","i","n","u","e">> >>,
      speed_multiplier |-> 18, pause_before |-> 0, pause_after |-> 100 ],
    [ category |-> "boilerplate",
      patterns |-> <<
          <<"S","y","s","t","e","m",".","o","u","t",".","p","r","i","n","t","l","n">>,
          <<"p","u","b","l","i","c"," ","s","t","a","t","i","c"," ","v","o","i","d"," ","m","a","i","n">>,
          <<"S","t","r","i","n","g","[","]"," ","a","r","g","s">>,
          <<"@","O","v","e","r","r","i","d","e">>, <<"@","A","u","t","o","w","i","r","e","d">>,
          <<"@","C","o","m","p","o","n","e","n","t">>, <<"@","S","e","r","v","i","c","e">>,
          <<"@","R","e","p","o","s","i","t","o","r","y">>, <<"@","E","n","t","i","t","y">>,
          <<"@","T","a","b","l","e">>, <<"@","C","o","l","u","m","n">>, <<"@","I","d">>,
          <<"@","G","e","n","e","r","a","t","e","d","V","a","l","u","e">>,
          <<"A","r","r","a","y","L","i","s","t","<",">">>,
          <<"H","a","s","h","M","a","p","<",">">>, <<"L","i","s","t","<",">">>,
          <<"M","a","p","<",">">>, <<"S","e","t","<",">">> >>,
      speed_multiplier |-> 20, pause_before |-> 0, pause_after |-> 200 ],
    [ category |-> "brackets_pairs",
      patterns |-> <<
          <<"{","}">>, <<"[","]">>, <<"(",")">>, <<"<",">">> >>,
      speed_multiplier |-> 30, pause_before |-> 0, pause_after |-> 100 ],
    [ category |-> "annotations",
      patterns |-> <<
          <<"@","O","v","e","r","r","i","d","e">>,
          <<"@","D","e","p","r","e","c","a","t","e","d">>,
          <<"@","S","u","p","p","r","e","s","s","W","a","r","n","i","n","g","s">>,
          <<"@","T","e","s","t">>, <<"@","B","e","f","o","r","e">>, <<"@","A","f","t","e","r">>,
          <<"@","A","u","t","o","w","i","r","e","d">>,
          <<"@","C","o","m","p","o","n","e","n","t">>, <<"@","S","e","r","v","i","c","e">> >>,
      speed_multiplier |-> 16, pause_before |-> 100, pause_after |-> 200 ] >>

LANGUAGE_PATTERNS_javascript ==
  <<
    [ category |-> "keywords",
      patterns |-> <<
          <<"f","u","n","c","t","i","o","n">>, <<"c","o","n","s","t">>, <<"l","e","t">>,
          <<"v","a","r">>, <<"r","e","t","u","r","n">>, <<"i","f">>, <<"e","l","s","e">>,
          <<"f","o","r">>, <<"w","h","i","l","e">>, <<"d","o">>, <<"s","w","i","t","c","h">>,
          <<"c","a","s","e">>, <<"b","r","e","a","k">>, <<"c","o","n","t","i","n","u","e">>,
          <<"t","r","y">>, <<"c","a","t","c","h">>, <<"f","i","n","a","l","l","y">>,
          <<"t","h","r","o","w">>, <<"n","e","w">>, <<"t","h","i","s">>,
          <<"t","y","p","e","o","f">>, <<"i","n","s","t","a","n","c","e","o","f">>, <<"i","n">>,
          <<"d","e","l","e","t","e">>, <<"v","o","i","d">>, <<"t","r","u","e">>,
          <<"f","a","l","s","e">>, <<"n","u","l","l">>, <<"u","n","d","e","f","i","n","e","d">>,
          <<"e","x","p","o","r","t">>, <<"i","m","p","o","r","t">>, <<"f","r","o","m">>,
          <<"d","e","f","a","u","l","t">>, <<"a","s">> >>,
      speed_multiplier |-> 18, pause_before |-> 0, pause_after |-> 100 ],
    [ category |-> "boilerplate",
      patterns |-> <<
          <<"c","o","n","s","o","l","e",".","l","o","g">>,
          <<"d","o","c","u","m","e","n","t",".","g","e","t","E","l","e","m","e","n","t","B","y","I","d">>,
          <<"a","d","d","E","v","e","n","t","L","i","s","t","e","n","e","r">>,
          <<"q","u","e","r","y","S","e","l","e","c","t","o","r">>,
          <<"q","u","e","r","y","S","e","l","e","c","t","o","r","A","l","l">>,
          <<"c","r","e","a","t","e","E","l","e","m","e","n","t">>,
          <<"s","e","t","A","t","t","r","i","b","u","t","e">>,
          <<"g","e","t","A","t","t","r","i","b","u","t","e">>,
          <<"a","p","p","e","n","d","C","h","i","l","d">>,
          <<"r","e","m","o","v","e","C","h","i","l","d">>,
          <<"J","S","O","N",".","s","t","r","i","n","g","i","f","y">>,
          <<"J","S","O","N",".","p","a","r","s","e">>,
          <<"O","b","j","e","c","t",".","k","e","y","s">>,
          <<"A","r","r","a","y",".","f","r","o","m">> >>,
      speed_multiplier |-> 20, pause_before |-> 0, pause_after |-> 200 ],
    [ category |-> "arrow_functions",
      patterns |-> <<
          <<"=",">">>, <<"(",")"," ","=",">">>, <<"(","p","a","r","a","m",")"," ","=",">">>,
          <<"a","s","y","n","c"," ","(",")"," ","=",">">> >>,
      speed_multiplier |-> 19, pause_before |-> 0, pause_after |-> 100 ],
    [ category |-> "async_patterns",
      patterns |-> <<
          <<"a","s","y","n","c">>, <<"a","w","a","i","t">>, <<"P","r","o","m","i","s","e">>,
          <<".","t","h","e","n">>, <<".","c","a","t","c","h">>,
          <<".","f","i","n","a","l","l","y">> >>,
      speed_multiplier |-> 14, pause_before |-> 100, pause_after |-> 100 ] >>

LANGUAGE_PATTERNS_react ==
  <<
    [ category |-> "hooks",
      patterns |-> <<
          <<"u","s","e","S","t","a","t","e">>, <<"u","s","e","E","f","f","e","c","t">>,
          <<"u","s","e","C","o","n","t","e","x","t">>,
          <<"u","s","e","C","a","l","l","b","a","c","k">>, <<"u","s","e","M","e","m","o">>,
          <<"u","s","e","R","e","f">>, <<"u","s","e","R","e","d","u","c","e","r">>,
          <<"u","s","e","I","m","p","e","r","a","t","i","v","e","H","a","n","d","l","e">>,
          <<"u","s","e","L","a","y","o","u","t","E","f","f","e","c","t">>,
          <<"u","s","e","D","e","b","u","g","V","a","l","u","e">>, <<"u","s","e","I","d">>,
          <<"u","s","e","D","e","f","e","r","r","e","d","V","a","l","u","e">>,
          <<"u","s","e","T","r","a","n","s","i","t","i","o","n">> >>,
      speed_multiplier |-> 19, pause_before |-> 0, pause_after |-> 150 ],
    [ category |-> "jsx_attributes",
      patterns |-> <<
          <<"c","l","a","s","s","N","a","m","e">>, <<"o","n","C","l","i","c","k">>,
          <<"o","n","C","h","a","n","g","e">>, <<"o","n","S","u","b","m","i","t">>,
          <<"o","n","F","o","c","u","s">>, <<"o","n","B","l","u","r">>,
          <<"o","n","M","o","u","s","e","E","n","t","e","r">>,
          <<"o","n","M","o","u","s","e","L","e","a","v","e">>,
          <<"o","n","K","e","y","D","o","w","n">>, <<"o","n","K","e","y","U","p">>,
          <<"v","a","l","u","e">>, <<"p","l","a","c","e","h","o","l","d","e","r">>,
          <<"d","i","s","a","b","l","e","d">>, <<"c","h","e","c","k","e","d">>,
          <<"s","e","l","e","c","t","e","d">>, <<"k","e","y">>, <<"r","e","f">> >>,
      speed_multiplier |-> 17, pause_before |-> 0, pause_after |-> 100 ],
    [ category |-> "component_patterns",
      patterns |-> <<
          <<"i","m","p","o","r","t"," ","R","e","a","c","t">>,
          <<"e","x","p","o","r","t"," ","d","e","f","a","u","l","t">>,
          <<"R","e","a","c","t",".","C","o","m","p","o","n","e","n","t">>,
          <<"R","e","a","c","t",".","F","r","a","g","m","e","n","t">>,
          <<"P","r","o","p","T","y","p","e","s">>,
          <<"d","e","f","a","u","l","t","P","r","o","p","s">>,
          <<"r","e","n","d","e","r","(",")">>,
          <<"c","o","m","p","o","n","e","n","t","D","i","d","M","o","u","n","t">>,
          <<"c","o","m","p","o","n","e","n","t","D","i","d","U","p","d","a","t","e">>,
          <<"c","o","m","p","o","n","e","n","t","W","i","l","l","U","n","m","o","u","n","t">> >>,
      speed_multiplier |-> 18, pause_before |-> 0, pause_after |-> 150 ],
    [ category |-> "jsx_elements",
      patterns |-> <<
          <<"<","d","i","v",">">>, <<"<","s","p","a","n",">">>, <<"<","p",">">>,
          <<"<","h","1",">">>, <<"<","h","2",">">>, <<"<","h","3",">">>,
          <<"<","b","u","t","t","o","n",">">>, <<"<","i","n","p","u","t",">">>,
          <<"<","f","o","r","m",">">> >>,
      speed_multiplier |-> 22, pause_before |-> 0, pause_after |-> 50 ] >>

LANGUAGE_PATTERNS_css ==
  <<
    [ category |-> "properties",
      patterns |-> <<
          <<"d","i","s","p","l","a","y",":">>, <<"p","o","s","i","t","i","o","n",":">>,
          <<"t","o","p",":">>, <<"r","i","g","h","t",":">>, <<"b","o","t","t","o","m",":">>,
          <<"l","e","f","t",":">>, <<"w","i","d","t","h",":">>, <<"h","e","i","g","h","t",":">>,
          <<"m","a","r","g","i","n",":">>, <<"p","a","d","d","i","n","g",":">>,
          <<"b","o","r","d","e","r",":">>, <<"c","o","l","o","r",":">>,
          <<"b","a","c","k","g","r","o","u","n","d",":">>,
          <<"b","a","c","k","g","r","o","u","n","d","-","c","o","l","o","r",":">>,
          <<"f","o","n","t","-","s","i","z","e",":">>,
          <<"f","o","n","t","-","w","e","i","g","h","t",":">>,
          <<"f","o","n","t","-","f","a","m","i","l","y",":">>,
          <<"t","e","x","t","-","a","l","i","g","n",":">>,
          <<"t","e","x","t","-","d","e","c","o","r","a","t","i","o","n",":">>,
          <<"l","i","n","e","-","h","e","i","g","h","t",":">>,
          <<"z","-","i","n","d","e","x",":">>, <<"o","p","a","c","i","t","y",":">>,
          <<"v","i","s","i","b","i","l","i","t","y",":">>,
          <<"o","v","e","r","f","l","o","w",":">>, <<"f","l","o","a","t",":">>,
          <<"c","l","e","a","r",":">>, <<"c","u","r","s","o","r",":">>,
          <<"b","o","x","-","s","h","a","d","o","w",":">>,
          <<"b","o","r","d","e","r","-","r","a","d","i","u","s",":">> >>,
      speed_multiplier |-> 16, pause_before |-> 0, pause_after |-> 100 ],
    [ category |-> "selectors",
      patterns |-> <<
          <<".","c","l","a","s","s">>, <<"#","i","d">>, <<":","h","o","v","e","r">>,
          <<":","f","o","c","u","s">>, <<":","a","c","t","i","v","e">>,
          <<":","b","e","f","o","r","e">>, <<":","a","f","t","e","r">>,
          <<":","f","i","r","s","t","-","c","h","i","l","d">>,
          <<":","l","a","s","t","-","c","h","i","l","d">>,
          <<":","n","t","h","-","c","h","i","l","d">>,
          <<":",":","p","l","a","c","e","h","o","l","d","e","r">> >>,
      speed_multiplier |-> 14, pause_before |-> 50, pause_after |-> 100 ],
    [ category |-> "values",
      patterns |-> <<
          <<"f","l","e","x">>, <<"b","l","o","c","k">>, <<"i","n","l","i","n","e">>,
          <<"i","n","l","i","n","e","-","b","l","o","c","k">>, <<"g","r","i","d">>,
          <<"n","o","n","e">>, <<"a","u","t","o">>, <<"c","e","n","t","e","r">>,
          <<"l","e","f","t">>, <<"r","i","g","h","t">>, <<"a","b","s","o","l","u","t","e">>,
          <<"r","e","l","a","t","i","v","e">>, <<"f","i","x","e","d">>,
          <<"s","t","i","c","k","y">>, <<"b","o","l","d">>, <<"n","o","r","m","a","l">>,
          <<"i","t","a","l","i","c">>, <<"u","n","d","e","r","l","i","n","e">>,
          <<"t","r","a","n","s","p","a","r","e","n","t">>, <<"i","n","h","e","r","i","t">> >>,
      speed_multiplier |-> 15, pause_before |-> 0, pause_after |-> 50 ],
    [ category |-> "media_queries",
      patterns |-> <<
          <<"@","m","e","d","i","a">>, <<"@","k","e","y","f","r","a","m","e","s">>,
          <<"@","i","m","p","o","r","t">>, <<"@","f","o","n","t","-","f","a","c","e">> >>,
      speed_multiplier |-> 13, pause_before |-> 200, pause_after |-> 300 ] >>

\* LANGUAGE_PATTERNS.get(language, {}): an unknown key has no categories.
LANGUAGE_PATTERNS(lang) ==
  CASE lang = "java" -> LANGUAGE_PATTERNS_java
    [] lang = "javascript" -> LANGUAGE_PATTERNS_javascript
    [] lang = "react" -> LANGUAGE_PATTERNS_react
    [] lang = "css" -> LANGUAGE_PATTERNS_css
    [] OTHER -> <<>>

OPERATOR_PATTERNS ==
  <<
    [ category |-> "assignment",
      patterns |-> <<
          <<"=">>, <<"+","=">>, <<"-","=">>, <<"*","=">>, <<"/","=">>, <<"%","=">>, <<"&","=">>,
          <<"|","=">>, <<"^","=">>, <<"<","<">>, <<">",">">> >>,
      speed_multiplier |-> 12, pause_before |-> 50, pause_after |-> 50 ],
    [ category |-> "comparison",
      patterns |-> <<
          <<"=","=">>, <<"=","=","=">>, <<"!","=">>, <<"!","=","=">>, <<"<">>, <<">">>,
          <<"<","=">>, <<">","=">> >>,
      speed_multiplier |-> 11, pause_before |-> 50, pause_after |-> 50 ],
    [ category |-> "logical",
      patterns |-> <<
          <<"&","&">>, <<"|","|">>, <<"!">>, <<"&">>, <<"|">>, <<"^">> >>,
      speed_multiplier |-> 10, pause_before |-> 100, pause_after |-> 100 ],
    [ category |-> "arithmetic",
      patterns |-> <<
          <<"+">>, <<"-">>, <<"*">>, <<"/">>, <<"%">>, <<"+","+">>, <<"-","-">> >>,
      speed_multiplier |-> 13, pause_before |-> 20, pause_after |-> 20 ] >>

PUNCTUATION_PATTERNS ==
  <<
    [ category |-> "statement_end",
      patterns |-> <<
          <<";">> >>,
      speed_multiplier |-> 15, pause_before |-> 0, pause_after |-> 200 ],
    [ category |-> "block_structure",
      patterns |-> <<
          <<"{">>, <<"}">> >>,
      speed_multiplier |-> 14, pause_before |-> 100, pause_after |-> 200 ],
    [ category |-> "function_params",
      patterns |-> <<
          <<"(">>, <<")">> >>,
      speed_multiplier |-> 18, pause_before |-> 0, pause_after |-> 50 ],
    [ category |-> "array_brackets",
      patterns |-> <<
          <<"[">>, <<"]">> >>,
      speed_multiplier |-> 16, pause_before |-> 0, pause_after |-> 50 ] >>

\* ---- pause_directive.py ----
MIN_PAUSE_DURATION == 0
MAX_PAUSE_DURATION == 60000

\* PauseDirectiveParser.__init__: the bounds the parser keeps.
PauseDirectiveParser(min_duration, max_duration) ==
  [min_duration |-> min_duration, max_duration |-> max_duration]

DirectiveOpen == <<"{","{","P","A","U","S","E",":">>

\* One closing brace is enough.
DirectiveCloseSingle == <<"}">>

DirectiveClose == <<"}","}">>

\* The end of the maximal run of digits of text that starts at position p.
RECURSIVE DigitsEnd(_, _)
DigitsEnd(text, p) ==
  IF p < Len(text) /\ IsDigit(CharAt(text, p)) THEN DigitsEnd(text, p + 1) ELSE p

\* The number may be empty (\d* for \d+).
PatternMatchEmptyNumber(text, p) ==
  LET a == p + Len(DirectiveOpen)
      b == DigitsEnd(text, a)
  IN  IF HasPrefixAt(text, p, DirectiveOpen) /\ HasPrefixAt(text, b, DirectiveClose)
      THEN [matched |-> TRUE, start |-> p, end |-> b + Len(DirectiveClose),
            int_start |-> a, int_end |-> b, group_end |-> b]
      ELSE [matched |-> FALSE, start |-> p, end |-> p,
            int_start |-> p, int_end |-> p, group_end |-> p]

\* PAUSE_DIRECTIVE_PATTERN anchored at position p (pattern.match(text, p)):
\* the spans of the match and of its group 1, or matched = FALSE.
\* \d+ is greedy, and no shorter run can be followed by "." or "}", so the
\* greedy choice is the only one to try; the optional (?:\.\d+) is taken when
\* a "." and at least one digit follow, and giving it up would leave "." where
\* "}" is needed.
PatternMatch(text, p) ==
  LET a == p + Len(DirectiveOpen)
      b == DigitsEnd(text, a)
      f == DigitsEnd(text, b + 1)
      c == IF b < Len(text) /\ CharAt(text, b) = "." /\ f > b + 1 THEN f ELSE b
  IN  IF /\ HasPrefixAt(text, p, DirectiveOpen)
         /\ b > a
         /\ HasPrefixAt(text, c, DirectiveClose)
      THEN [matched |-> TRUE, start |-> p, end |-> c + Len(DirectiveClose),
            int_start |-> a, int_end |-> b, group_end |-> c]
      ELSE [matched |-> FALSE, start |-> p, end |-> p,
            int_start |-> p, int_end |-> p, group_end |-> p]

\* The value of the digits text[a:b], most significant first.
RECURSIVE DigitsValue(_, _, _)
DigitsValue(text, a, b) ==
  IF b <= a THEN 0
  ELSE DigitsValue(text, a, b - 1) * 10 + DigitValue(CharAt(text, b - 1))

\* The fraction digits text[a:b] in milliseconds (digits past the third are
\* below the unit of the model).
FractionMillis(text, a, b) ==
  LET d(k) == IF a + k < b THEN DigitValue(CharAt(text, a + k)) ELSE 0
  IN  d(0) * 100 + d(1) * 10 + d(2)

\* float(match.group(1)), in milliseconds.
RawDuration(text, m) ==
  DigitsValue(text, m.int_start, m.int_end) * 1000
    + (IF m.group_end > m.int_end
       THEN FractionMillis(text, m.int_end + 1, m.group_end) ELSE 0)

\* The lower bound is not applied.
validate_duration_upper_only(self, duration) ==
  IF duration > self.max_duration THEN self.max_duration ELSE duration

validate_duration(self, duration) ==
  IF duration < self.min_duration THEN self.min_duration
  ELSE IF duration > self.max_duration THEN self.max_duration
  ELSE duration

NoDirective ==
  [found |-> FALSE, start_position |-> 0, end_position |-> 0, duration |-> 0,
   raw_text |-> <<>>]

\* The duration is stored as written.
MakeDirectiveUnvalidated(self, text, m) ==
  [found |-> TRUE, start_position |-> m.start, end_position |-> m.end,
   duration |-> RawDuration(text, m),
   raw_text |-> Slice(text, m.start, m.end)]

\* The PauseDirective built from a match.
MakeDirective(self, text, m) ==
  [found |-> TRUE, start_position |-> m.start, end_position |-> m.end,
   duration |-> validate_duration(self, RawDuration(text, m)),
   raw_text |-> Slice(text, m.start, m.end)]

\* pattern.search(text) from position p on: the leftmost match at or after p.
RECURSIVE SearchFrom(_, _)
SearchFrom(text, p) ==
  IF p >= Len(text) \/ PatternMatch(text, p).matched THEN PatternMatch(text, p)
  ELSE SearchFrom(text, p + 1)

\* The pattern is searched from position on instead of matched at it.
find_directive_from_position(self, text, position) ==
  LET m == SearchFrom(text, position)
  IN  IF m.matched THEN MakeDirective(self, text, m) ELSE NoDirective

find_directive_at_position(self, text, position) ==
  LET m == PatternMatch(text, position)
  IN  IF m.matched THEN MakeDirective(self, text, m) ELSE NoDirective

\* pattern.finditer(text) from position p on: the leftmost match, then the
\* search goes on from its end (matches are never empty).
RECURSIVE FindIter(_, _)
FindIter(text, p) ==
  IF p >= Len(text) THEN <<>>
  ELSE LET m == PatternMatch(text, p)
       IN  IF m.matched THEN <<m>> \o FindIter(text, m.end)
           ELSE FindIter(text, p + 1)

\* After a match the search goes on one character past its end.
RECURSIVE FindIterApart(_, _)
FindIterApart(text, p) ==
  IF p >= Len(text) THEN <<>>
  ELSE LET m == PatternMatch(text, p)
       IN  IF m.matched THEN <<m>> \o FindIterApart(text, m.end + 1)
           ELSE FindIterApart(text, p + 1)

find_all_directives_apart(self, text) ==
  LET ms == FindIterApart(text, 0)
  IN  [k \in 1..Len(ms) |-> MakeDirective(self, text, ms[k])]

find_all_directives(self, text) ==
  LET ms == FindIter(text, 0)
  IN  [k \in 1..Len(ms) |-> MakeDirective(self, text, ms[k])]

\* pattern.sub('', text): the text outside the matches, from position p on.
RECURSIVE SubEmpty(_, _)
SubEmpty(text, p) ==
  IF p >= Len(text) THEN <<>>
  ELSE LET m == PatternMatch(text, p)
       IN  IF m.matched THEN SubEmpty(text, m.end)
           ELSE <<CharAt(text, p)>> \o SubEmpty(text, p + 1)

\* Only the first directive is removed.
remove_first_directive(text) ==
  LET ms == FindIter(text, 0)
  IN  IF ms = <<>> THEN text
      ELSE Slice(text, 0, ms[1].start) \o Slice(text, ms[1].end, Len(text))

remove_all_directives(text) == SubEmpty(text, 0)

\* sum(d.duration for d in directives)
RECURSIVE SumDurations(_)
SumDurations(directives) ==
  IF directives = <<>> THEN 0
  ELSE Head(directives).duration + SumDurations(Tail(directives))

\* The durations are summed as written, before validation.
get_total_raw_pause_time(self, text) ==
  LET ms == FindIter(text, 0)
  IN  SumDurations([k \in 1..Len(ms) |-> MakeDirectiveUnvalidated(self, text, ms[k])])

get_total_pause_time(self, text) == SumDurations(find_all_directives(self, text))

\* len(self.pattern.findall(text)): one entry per match of finditer.
get_directive_count(self, text) == Len(FindIter(text, 0))

\* bool(pattern.search(text)) with the pattern compiled anew.
has_pause_directives(text) == SearchFrom(text, 0).matched
\* ---- pattern_matcher.py ----
\* One entry of compiled_patterns: the token, whether its regex is wrapped in
\* \b...\b (language tokens whose first character is alphanumeric), and the
\* timing of its category. category is the list of the parts of the
\* category string (<<"operator_", "assignment">> is 'operator_assignment').
CompileRule(cat, pattern, prefix, lang_specific) ==
  [pattern |-> pattern,
   wb |-> lang_specific /\ IsAlnum(pattern[1]),
   speed_multiplier |-> cat.speed_multiplier,
   pause_before |-> cat.pause_before,
   pause_after |-> cat.pause_after,
   category |-> prefix \o <<cat.category>>]

\* The entries one category appends, in the order of its patterns; the loop
\* over a language's categories skips an empty token.
CategoryRules(cat, prefix, lang_specific) ==
  LET ps == IF lang_specific
            THEN SelectSeq(cat.patterns, LAMBDA p : p # <<>>)
            ELSE cat.patterns
  IN  [k \in 1..Len(ps) |-> CompileRule(cat, ps[k], prefix, lang_specific)]

RECURSIVE TableRules(_, _, _, _)
TableRules(table, k, prefix, lang_specific) ==
  IF k > Len(table) THEN <<>>
  ELSE CategoryRules(table[k], prefix, lang_specific)
         \o TableRules(table, k + 1, prefix, lang_specific)

LanguageRules(lang) == TableRules(LANGUAGE_PATTERNS(lang), 1, <<>>, TRUE)
OperatorRules == TableRules(OPERATOR_PATTERNS, 1, <<"operator_">>, FALSE)
PunctuationRules == TableRules(PUNCTUATION_PATTERNS, 1, <<"punctuation_">>, FALSE)

\* The languages that have a table, and every entry any compilation can
\* build.  compiled_patterns holds entries by their index in RuleTable.
KnownLanguages == <<"java", "javascript", "react", "css">>

RECURSIVE LanguageRulesUpTo(_)
LanguageRulesUpTo(n) ==
  IF n = 0 THEN <<>>
  ELSE LanguageRulesUpTo(n - 1) \o LanguageRules(KnownLanguages[n])

RuleTable ==
  LanguageRulesUpTo(Len(KnownLanguages)) \o OperatorRules \o PunctuationRules

Rule(id) == RuleTable[id]

IdRange(first, n) == [k \in 1..n |-> first + k - 1]

LanguageIds(lang) ==
  LET at == {n \in 1..Len(KnownLanguages) : KnownLanguages[n] = lang}
  IN  IF at = {} THEN <<>>
      ELSE LET n == CHOOSE n \in at : TRUE
           IN  IdRange(Len(LanguageRulesUpTo(n - 1)) + 1, Len(LanguageRules(lang)))

OperatorIds ==
  IdRange(Len(LanguageRulesUpTo(Len(KnownLanguages))) + 1, Len(OperatorRules))

PunctuationIds ==
  IdRange(Len(LanguageRulesUpTo(Len(KnownLanguages))) + Len(OperatorRules) + 1,
          Len(PunctuationRules))

\* The list _compile_patterns has built before it sorts it: the language's
\* entries, then the operators, then the punctuation.
AppendedPatterns(lang) == LanguageIds(lang) \o OperatorIds \o PunctuationIds

PatternLength(id) == Len(Rule(id).pattern)

\* The longest token among the entries ids (0 for an empty list).
MaxPatternLength(ids) ==
  LET lens == {PatternLength(ids[k]) : k \in 1..Len(ids)}
  IN  IF lens = {} THEN 0 ELSE CHOOSE n \in lens : \A m \in lens : m <= n

\* list.sort(key=len of the token, reverse=True): longest first, and the sort
\* is stable, so entries of equal length keep their order.
RECURSIVE SortedFrom(_, _)
SortedFrom(ids, n) ==
  IF n < 0 THEN <<>>
  ELSE SelectSeq(ids, LAMBDA id : PatternLength(id) = n) \o SortedFrom(ids, n - 1)

\* A sort by length that is not stable: entries of equal length come out in
\* the reverse of their order.
RECURSIVE SortedLastFirstFrom(_, _)
SortedLastFirstFrom(ids, n) ==
  IF n < 0 THEN <<>>
  ELSE LET same == SelectSeq(ids, LAMBDA id : PatternLength(id) = n)
       IN  [k \in 1..Len(same) |-> same[Len(same) + 1 - k]]
             \o SortedLastFirstFrom(ids, n - 1)

SortByLengthUnstable(ids) == SortedLastFirstFrom(ids, MaxPatternLength(ids))

SortByLength(ids) == SortedFrom(ids, MaxPatternLength(ids))

\* compiled_patterns after _compile_patterns() for self.language = lang.
CompilePatterns(lang) == SortByLength(AppendedPatterns(lang))

\* \b at position k: exactly one of the characters before and at k is a word
\* character (outside the text counts as not a word character).
IsWordAt(text, k) == k >= 0 /\ k < Len(text) /\ IsWordChar(CharAt(text, k))
WordBoundary(text, k) == IsWordAt(text, k - 1) # IsWordAt(text, k)

\* A regex whose \b is only in front of the token.
RegexMatchLeadingBoundary(rule, text, position) ==
  /\ rule.wb => WordBoundary(text, position)
  /\ HasPrefixAt(text, position, rule.pattern)

\* pattern_info['regex'].match(text, position)
RegexMatch(rule, text, position) ==
  /\ rule.wb => WordBoundary(text, position)
  /\ HasPrefixAt(text, position, rule.pattern)
  /\ rule.wb => WordBoundary(text, position + Len(rule.pattern))

NoPattern == [found |-> FALSE, id |-> 0, length |-> 0]

\* The loop of find_pattern_at_position: the first entry of the list whose
\* regex matches at position.
FirstMatch(compiled, text, position) ==
  LET hits == {k \in 1..Len(compiled) :
                 RegexMatch(Rule(compiled[k]), text, position)}
  IN  IF hits = {} THEN NoPattern
      ELSE LET k == CHOOSE k \in hits : \A j \in hits : k <= j
           IN  [found |-> TRUE, id |-> compiled[k],
                length |-> Len(Rule(compiled[k]).pattern)]

find_pattern_at_position(compiled, text, position) ==
  FirstMatch(compiled, text, position)

\* ---- main.py: the state ----
DEFAULT_MIN_WPM == 100
DEFAULT_MAX_WPM == 250

\* The number of scan-thread objects that can exist at once in the model.
NThreads == 2

\* The number of button presses (start, pause, continue, stop) in a run.
MaxOps == 3

VARIABLES
  widget,                     \* the content of text_widget
  is_typing,                  \* global is_typing
  current_position,           \* global current_position
  min_wpm, max_wpm,           \* globals min_wpm, max_wpm
  typing_thread,              \* global typing_thread: a thread slot, 0 for None
  ignore_leading_whitespace,  \* global ignore_leading_whitespace
  language,                   \* pattern_matcher.language
  compiled_patterns,          \* pattern_matcher.compiled_patterns
  threads,                    \* the scan threads: position in auto_type and locals
  gui,                        \* the GUI thread: idle, or asleep inside a handler
  typed,                      \* the characters passed to keyboard.type, in order
  typedAt,                    \* the position in the text each of them was read at
  skippedAt,                  \* the positions skipped as leading whitespace
  sleeps,                     \* the durations of the directive sleeps, in order
  nops,                       \* the number of button presses so far
  lastOp,                     \* the last button pressed
  paused,                     \* pause has been pressed while is_typing
  stopped,                    \* stop has been pressed
  typedAtOp,                  \* len(typed) when the last button was pressed
  typedAtStop,                \* len(typed) when stop was last pressed
  call                        \* the last direct call of a parser or matcher
                              \* method: its arguments and what it returned

globals == <<is_typing, current_position, min_wpm, max_wpm, typing_thread>>
matcher == <<language, compiled_patterns>>
outputs == <<typed, typedAt, skippedAt, sleeps>>
history == <<nops, lastOp, paused, stopped, typedAtOp, typedAtStop>>
vars == <<widget, globals, ignore_leading_whitespace, matcher, threads, gui,
          outputs, history, call>>

\* pause_parser = PauseDirectiveParser()
pause_parser == PauseDirectiveParser(MIN_PAUSE_DURATION, MAX_PAUSE_DURATION)

ThreadIds == 1..NThreads

\* A thread object that is not running auto_type (not started, or returned).
\* adjusted_delay is the sign of the local of that name ("none" before it is
\* computed) and delay_uses the number of sleeps made with its value.
\* match_start is the position the match being typed was found at and
\* events what lines 93-126 have done for it so far, in order: the calls of
\* time.sleep and of keyboard.type.
DeadThread ==
  [pc |-> "dead", text |-> <<>>, at_line_start |-> FALSE, current_char |-> 0,
   pause_end |-> 0, pattern_id |-> 0, pattern_length |-> 0, i |-> 0,
   loaded |-> 0, adjusted_delay |-> "none", delay_uses |-> 0,
   match_start |-> 0, events |-> <<>>]

\* threading.Thread(target=auto_type, ...).start(): at the first line.
NewThread == [DeadThread EXCEPT !.pc = "init"]

\* Thread.is_alive()
IsAlive(t) == threads[t].pc # "dead"

AliveThreads == {t \in ThreadIds : IsAlive(t)}

\* ---- the texts and entries of the model ----
Directive(body) == DirectiveOpen \o body \o DirectiveClose

\* The contents of the text widget in the runs with button presses.
WidgetTexts ==
  { Directive(<<"2">>) \o <<"a">>,
    <<"a", "\n", " ", " ", "b", "\n">>,
    <<"a", " ", "\n", "b">>,
    <<"i", "f", " ", "x">> }

\* The entries of the language menu used here, and str.lower() on them.
LanguageNames == {"CSS", "Python"}

\* The key kept as it was written.
LowerAsWritten(name) == name

Lower(name) ==
  CASE name = "Java" -> "java"
    [] name = "JavaScript" -> "javascript"
    [] name = "React" -> "react"
    [] name = "CSS" -> "css"
    [] name = "Python" -> "python"
    [] OTHER -> name

\* No method has been called directly.
NoCall == [fn |-> "none", self |-> 0, text |-> <<>>, arg |-> 0, result |-> 0]

\* An entry field: the text of an integer, or text int() rejects.
IntEntry(n) == [valid |-> TRUE, value |-> n]
BadEntry == [valid |-> FALSE, value |-> 0]
WpmEntries == {IntEntry(40), BadEntry}

\* PatternMatcher.__init__: the matcher after construction for a language.
PatternMatcherInit(name) ==
  /\ language = Lower(name)
  /\ compiled_patterns = CompilePatterns(Lower(name))

\* Lines 23-32, with the window as the user has prepared it before the first
\* button: a text in the widget and the checkbox set either way (its handler
\* on_whitespace_toggle is the one writer of ignore_leading_whitespace).
InitWindow ==
  /\ is_typing = FALSE
  /\ current_position = 0
  /\ min_wpm = DEFAULT_MIN_WPM
  /\ max_wpm = DEFAULT_MAX_WPM
  /\ typing_thread = 0
  /\ ignore_leading_whitespace \in BOOLEAN
  /\ threads = [t \in ThreadIds |-> DeadThread]
  /\ gui = "idle"
  /\ typed = <<>>
  /\ typedAt = <<>>
  /\ skippedAt = <<>>
  /\ sleeps = <<>>
  /\ nops = 0
  /\ lastOp = "none"
  /\ paused = FALSE
  /\ stopped = FALSE
  /\ typedAtOp = 0
  /\ typedAtStop = 0

\* Line 30: pattern_matcher = PatternMatcher('java').
InitCommon == InitWindow /\ PatternMatcherInit("java")

Init == widget \in WidgetTexts /\ call = NoCall /\ InitCommon

\* ---- main.py: auto_type, one action per stretch between two accesses of
\* the shared globals or calls of keyboard.type ----
SetThread(t, rec) == threads' = [threads EXCEPT ![t] = rec]

IsBlank(c) == c \in {" ", "\t"}

\* tk's text_widget.get("1.0", tk.END): the content and a final newline.
WidgetGet == widget \o <<"\n">>

\* A scan always begins as at the start of a line.
LineStartAlways(text, p) == TRUE

\* at_line_start as lines 55-60 compute it for position p of text.
LineStartAt(text, p) == IF p > 0 THEN CharAt(text, p - 1) = "\n" ELSE TRUE

\* Lines 49-60: the snapshot of the text and at_line_start.  text[p - 1]
\* raises IndexError past the end, which ends the thread.
ScanInit(t) ==
  /\ threads[t].pc = "init"
  /\ LET text == Strip(WidgetGet)
     IN  IF current_position > Len(text)
         THEN SetThread(t, DeadThread)
         ELSE SetThread(t, [threads[t] EXCEPT
                !.pc = "loop", !.text = text,
                !.at_line_start = LineStartAt(text, current_position)])
  /\ UNCHANGED <<widget, call, globals, ignore_leading_whitespace, matcher, gui,
                 outputs, history>>

\* The loop goes on without the test of is_typing.
ScanLoopWithoutFlag(t) ==
  /\ threads[t].pc = "loop"
  /\ SetThread(t, [threads[t] EXCEPT
       !.pc = IF current_position < Len(threads[t].text)
              THEN "directive" ELSE "return",
       !.match_start = 0, !.events = <<>>])
  /\ UNCHANGED <<widget, call, globals, ignore_leading_whitespace, matcher, gui,
                 outputs, history>>

\* Lines 62-64: the loop condition and the test of is_typing.
ScanLoop(t) ==
  /\ threads[t].pc = "loop"
  /\ SetThread(t, [threads[t] EXCEPT
       !.pc = IF current_position < Len(threads[t].text) /\ is_typing
              THEN "directive" ELSE "return",
       !.match_start = 0, !.events = <<>>])
  /\ UNCHANGED <<widget, call, globals, ignore_leading_whitespace, matcher, gui,
                 outputs, history>>

\* The jump stops one character short of the directive's end.
PositionAfterShort(pause_directive) == pause_directive.end_position - 1

\* Line 71: where the scan goes on after the directive.
PositionAfter(pause_directive) == pause_directive.end_position

\* Lines 67-70: the directive lookup; on a hit the thread sleeps for the
\* directive's duration.
ScanDirective(t) ==
  /\ threads[t].pc = "directive"
  /\ LET pause_directive ==
           find_directive_at_position(pause_parser, threads[t].text, current_position)
     IN  IF pause_directive.found
         THEN /\ sleeps' = Append(sleeps, pause_directive.duration)
              /\ SetThread(t, [threads[t] EXCEPT
                   !.pc = "skip_directive",
                   !.pause_end = PositionAfter(pause_directive)])
         ELSE /\ sleeps' = sleeps
              /\ SetThread(t, [threads[t] EXCEPT !.pc = "read"])
  /\ UNCHANGED <<widget, call, globals, ignore_leading_whitespace, matcher, gui,
                 typed, typedAt, skippedAt, history>>

\* Lines 71-75, after the sleep: the jump past the directive.
ScanSkipDirective(t) ==
  /\ threads[t].pc = "skip_directive"
  /\ current_position' = threads[t].pause_end
  /\ LET text == threads[t].text
         p == threads[t].pause_end
     IN  SetThread(t, [threads[t] EXCEPT
           !.pc = "loop", !.pause_end = 0,
           !.at_line_start = IF p > 0 /\ p < Len(text)
                             THEN CharAt(text, p - 1) = "\n"
                             ELSE threads[t].at_line_start])
  /\ UNCHANGED <<widget, call, is_typing, min_wpm, max_wpm, typing_thread,
                 ignore_leading_whitespace, matcher, gui, outputs, history>>

\* The skip does not look at at_line_start.
SkipsAnyWhitespace(at_line_start, c) == ignore_leading_whitespace /\ IsBlank(c)

\* Line 80: the character c is skipped as leading whitespace.
SkipsLeadingWhitespace(at_line_start, c) ==
  ignore_leading_whitespace /\ at_line_start /\ IsBlank(c)

\* Lines 77-81 and 84-88: current_char, the test for leading whitespace,
\* at_line_start.  text[current_position] raises IndexError past the end.
ScanRead(t) ==
  /\ threads[t].pc = "read"
  /\ LET text == threads[t].text
         p == current_position
     IN  IF p >= Len(text)
         THEN /\ SetThread(t, DeadThread)
              /\ UNCHANGED skippedAt
         ELSE IF SkipsLeadingWhitespace(threads[t].at_line_start, CharAt(text, p))
         THEN /\ skippedAt' = Append(skippedAt, p)
              /\ SetThread(t, [threads[t] EXCEPT !.pc = "skip"])
         ELSE /\ SetThread(t, [threads[t] EXCEPT
                   !.pc = "pattern", !.current_char = p,
                   !.at_line_start =
                     IF IsBlank(CharAt(text, p)) THEN threads[t].at_line_start
                     ELSE FALSE])
              /\ UNCHANGED skippedAt
  /\ UNCHANGED <<widget, call, globals, ignore_leading_whitespace, matcher, gui,
                 typed, typedAt, sleeps, history>>

\* current_position += 1 is a load of the global followed by a store; the
\* handlers of the buttons run between the two.  Load(t, next_pc) is the
\* load, Store(t, rec) the store, after which the thread is rec.
Load(t, next_pc) ==
  /\ SetThread(t, [threads[t] EXCEPT !.pc = next_pc,
                                     !.loaded = current_position])
  /\ UNCHANGED <<widget, call, globals, ignore_leading_whitespace, matcher, gui,
                 outputs, history>>

\* The store writes back the value that was loaded.
StoreSame(t, rec) ==
  /\ current_position' = threads[t].loaded
  /\ SetThread(t, [rec EXCEPT !.loaded = 0])
  /\ UNCHANGED <<widget, call, is_typing, min_wpm, max_wpm, typing_thread,
                 ignore_leading_whitespace, matcher, gui, outputs, history>>

Store(t, rec) ==
  /\ current_position' = threads[t].loaded + 1
  /\ SetThread(t, [rec EXCEPT !.loaded = 0])
  /\ UNCHANGED <<widget, call, is_typing, min_wpm, max_wpm, typing_thread,
                 ignore_leading_whitespace, matcher, gui, outputs, history>>

\* Lines 82-83: the skip of the whitespace character.
ScanSkip(t) ==
  /\ threads[t].pc = "skip"
  /\ Load(t, "skip_store")

ScanSkipStore(t) ==
  /\ threads[t].pc = "skip_store"
  /\ Store(t, [threads[t] EXCEPT !.pc = "loop"])

\* random.uniform(lo, hi) returns a value between its arguments, whichever
\* is the larger; what the scan does next depends on its sign only.
UniformSigns(lo, hi) ==
  LET CanBe(sign) ==
        CASE sign = "positive" -> lo > 0 \/ hi > 0
          [] sign = "negative" -> lo < 0 \/ hi < 0
          [] OTHER -> (lo <= 0 /\ 0 <= hi) \/ (hi <= 0 /\ 0 <= lo)
  IN  {sign \in {"positive", "zero", "negative"} : CanBe(sign)}

\* What the scan thread does for a match: "sleep" is time.sleep(arg) for
\* pause_before or pause_after (arg in milliseconds), "type" keyboard.type of
\* the character at position arg, and "delay" time.sleep(adjusted_delay).
Event(kind, arg) == [kind |-> kind, arg |-> arg]

\* Lines 95-97 and 124-126: the pause is slept only when it is positive.
PauseEvents(ms) == IF ms > 0 THEN <<Event("sleep", ms)>> ELSE <<>>

\* Lines 91-106: the pattern lookup, pause_before and the delay of the match,
\* computed once from one value of random.uniform; 60 / 0 raises
\* ZeroDivisionError, which ends the thread.
ScanPattern(t) ==
  /\ threads[t].pc = "pattern"
  /\ LET pattern_info ==
           find_pattern_at_position(compiled_patterns, threads[t].text,
                                    current_position)
     IN  IF pattern_info.found
         THEN \E sign \in UniformSigns(min_wpm, max_wpm) :
                IF sign = "zero"
                THEN SetThread(t, DeadThread)
                ELSE SetThread(t, [threads[t] EXCEPT
                       !.pc = "for", !.pattern_id = pattern_info.id,
                       !.pattern_length = pattern_info.length, !.i = 0,
                       !.adjusted_delay = sign, !.delay_uses = 0,
                       !.match_start = current_position,
                       !.events =
                         PauseEvents(Rule(pattern_info.id).pause_before)])
         ELSE SetThread(t, [threads[t] EXCEPT !.pc = "type"])
  /\ UNCHANGED <<widget, call, globals, ignore_leading_whitespace, matcher, gui,
                 outputs, history>>

\* Lines 109-111 and 124-126: the head of the for loop and its test of
\* is_typing; after the loop, pause_after.
ScanFor(t) ==
  /\ threads[t].pc = "for"
  /\ LET th == threads[t]
     IN  IF th.i >= th.pattern_length \/ ~is_typing
         THEN SetThread(t, [th EXCEPT !.pc = "loop", !.pattern_id = 0,
                                      !.pattern_length = 0, !.i = 0,
                                      !.current_char = 0,
                                      !.adjusted_delay = "none",
                                      !.delay_uses = 0,
                                      !.events = th.events \o
                                        PauseEvents(Rule(th.pattern_id).pause_after)])
         ELSE SetThread(t, [th EXCEPT !.pc = "for_read"])
  /\ UNCHANGED <<widget, call, globals, ignore_leading_whitespace, matcher, gui,
                 outputs, history>>

\* The flag is tested once more between the head of the for loop and the
\* read of the character, and the scan leaves the match there.
ScanForReadWithFlag(t) ==
  /\ threads[t].pc = "for_read"
  /\ IF ~is_typing
     THEN SetThread(t, [threads[t] EXCEPT !.pc = "loop"])
     ELSE IF current_position >= Len(threads[t].text)
     THEN SetThread(t, DeadThread)
     ELSE SetThread(t, [threads[t] EXCEPT !.pc = "for_type",
                                          !.current_char = current_position])
  /\ UNCHANGED <<widget, call, globals, ignore_leading_whitespace, matcher, gui,
                 outputs, history>>

\* Line 112: char = text[current_position], an IndexError past the end.
ScanForRead(t) ==
  /\ threads[t].pc = "for_read"
  /\ IF current_position >= Len(threads[t].text)
     THEN SetThread(t, DeadThread)
     ELSE SetThread(t, [threads[t] EXCEPT !.pc = "for_type",
                                          !.current_char = current_position])
  /\ UNCHANGED <<widget, call, globals, ignore_leading_whitespace, matcher, gui,
                 outputs, history>>

\* keyboard.type(c) of the character read at position p; a newline sets
\* at_line_start.  events is the record of the match after the call.
Emit(t, next_pc, events) ==
  LET th == threads[t]
      c == CharAt(th.text, th.current_char)
  IN  /\ typed' = Append(typed, c)
      /\ typedAt' = Append(typedAt, th.current_char)
      /\ SetThread(t, [th EXCEPT
           !.pc = next_pc, !.events = events,
           !.at_line_start = IF c = "\n" THEN TRUE ELSE th.at_line_start])

\* Lines 113-117.
ScanForType(t) ==
  /\ threads[t].pc = "for_type"
  /\ Emit(t, "for_advance",
          Append(threads[t].events, Event("type", threads[t].current_char)))
  /\ UNCHANGED <<widget, call, globals, ignore_leading_whitespace, matcher, gui,
                 skippedAt, sleeps, history>>

\* Lines 119-121: the advance and, except after the last character of the
\* match, time.sleep(adjusted_delay), which raises ValueError for a negative
\* delay and so ends the thread.
ScanForAdvance(t) ==
  /\ threads[t].pc = "for_advance"
  /\ Load(t, "for_advance_store")

\* The delay is slept after every character of the match, the last included.
ScanForAdvanceStoreAlwaysDelay(t) ==
  /\ threads[t].pc = "for_advance_store"
  /\ LET th == threads[t]
     IN  IF th.adjusted_delay = "negative"
         THEN Store(t, DeadThread)
         ELSE Store(t, [th EXCEPT !.pc = "for", !.i = th.i + 1,
                                  !.delay_uses = th.delay_uses + 1,
                                  !.events = Append(th.events, Event("delay", 0))])

ScanForAdvanceStore(t) ==
  /\ threads[t].pc = "for_advance_store"
  /\ LET th == threads[t]
     IN  IF th.i < th.pattern_length - 1
         THEN IF th.adjusted_delay = "negative"
              THEN Store(t, DeadThread)
              ELSE Store(t, [th EXCEPT !.pc = "for", !.i = th.i + 1,
                                       !.delay_uses = th.delay_uses + 1,
                                       !.events = Append(th.events, Event("delay", 0))])
         ELSE Store(t, [th EXCEPT !.pc = "for", !.i = th.i + 1])

\* Lines 129-133.
ScanType(t) ==
  /\ threads[t].pc = "type"
  /\ Emit(t, "advance", threads[t].events)
  /\ UNCHANGED <<widget, call, globals, ignore_leading_whitespace, matcher, gui,
                 skippedAt, sleeps, history>>

\* Lines 135-139: the advance, then the delay from a value of random.uniform
\* of its own; a zero raises ZeroDivisionError and a negative one makes
\* time.sleep raise ValueError, either of which ends the thread.
ScanAdvance(t) ==
  /\ threads[t].pc = "advance"
  /\ Load(t, "advance_store")

ScanAdvanceStore(t) ==
  /\ threads[t].pc = "advance_store"
  /\ \E sign \in UniformSigns(min_wpm, max_wpm) :
       IF sign = "positive"
       THEN Store(t, [threads[t] EXCEPT !.pc = "loop", !.current_char = 0])
       ELSE Store(t, DeadThread)

\* auto_type returns and the thread is no longer alive.
ScanReturn(t) ==
  /\ threads[t].pc = "return"
  /\ SetThread(t, DeadThread)
  /\ UNCHANGED <<widget, call, globals, ignore_leading_whitespace, matcher, gui,
                 outputs, history>>

\* ---- main.py: the button handlers, on the GUI thread ----
\* A handler runs to its end before the next button press is served; the
\* scan thread runs on while a handler sleeps start_delay seconds.
Press(op) ==
  /\ gui = "idle"
  /\ nops < MaxOps
  /\ nops' = nops + 1
  /\ lastOp' = op
  /\ typedAtOp' = Len(typed)

\* start_typing without its guard.
NeverAlreadyTyping == FALSE

\* Line 144: start_typing returns at once.
AlreadyTyping == is_typing

\* A thread is started whatever the last one does.
AlwaysNewThread == TRUE

\* Lines 152 and 175: no thread object yet, or the last one has returned.
NeedsNewThread == typing_thread = 0 \/ ~IsAlive(typing_thread)

\* Lines 151-156 and 174-179, after the sleep: the flag is set and, unless
\* the last thread is still alive, a new thread starts auto_type.
Launch ==
  /\ is_typing' = TRUE
  /\ IF NeedsNewThread
     THEN /\ \E t \in ThreadIds : ~IsAlive(t)
          /\ LET t == CHOOSE t \in ThreadIds :
                        ~IsAlive(t) /\ \A u \in ThreadIds : ~IsAlive(u) => t <= u
             IN  /\ typing_thread' = t
                 /\ SetThread(t, NewThread)
     ELSE UNCHANGED <<typing_thread, threads>>

\* Lines 141-150 and 158-159: the guard, the two int() conversions (the
\* first may have been assigned when the second raises ValueError), then the
\* sleep.
StartTyping(min_wpm_input, max_wpm_input) ==
  /\ Press("start")
  /\ IF AlreadyTyping \/ ~min_wpm_input.valid
     THEN UNCHANGED <<min_wpm, max_wpm, gui>>
     ELSE IF ~max_wpm_input.valid
     THEN /\ min_wpm' = min_wpm_input.value
          /\ UNCHANGED <<max_wpm, gui>>
     ELSE /\ min_wpm' = min_wpm_input.value
          /\ max_wpm' = max_wpm_input.value
          /\ gui' = "start_sleep"
  /\ UNCHANGED <<widget, call, is_typing, current_position, typing_thread,
                 ignore_leading_whitespace, matcher, threads, outputs,
                 paused, stopped,
                 typedAtStop>>

\* start begins the scan anew: the position is reset before the launch.
StartWakeFromZero ==
  /\ gui = "start_sleep"
  /\ gui' = "idle"
  /\ Launch
  /\ current_position' = 0
  /\ UNCHANGED <<widget, call, min_wpm, max_wpm,
                 ignore_leading_whitespace, matcher, outputs, history>>

\* Lines 151-157.
StartWake ==
  /\ gui = "start_sleep"
  /\ gui' = "idle"
  /\ Launch
  /\ UNCHANGED <<widget, call, current_position, min_wpm, max_wpm,
                 ignore_leading_whitespace, matcher, outputs, history>>

\* Lines 161-166.
PauseTyping ==
  /\ Press("pause")
  /\ is_typing' = FALSE
  /\ paused' = (paused \/ is_typing)
  /\ UNCHANGED <<widget, call, current_position, min_wpm, max_wpm, typing_thread,
                 ignore_leading_whitespace, matcher, threads, gui, outputs,
                 stopped,
                 typedAtStop>>

\* Lines 168-173.
ContinueTyping ==
  /\ Press("continue")
  /\ gui' = IF is_typing THEN gui ELSE "continue_sleep"
  /\ UNCHANGED <<widget, call, globals, ignore_leading_whitespace, matcher, threads,
                 outputs, paused, stopped,
                 typedAtStop>>

\* Lines 174-180.
ContinueWake ==
  /\ gui = "continue_sleep"
  /\ gui' = "idle"
  /\ Launch
  /\ UNCHANGED <<widget, call, current_position, min_wpm, max_wpm,
                 ignore_leading_whitespace, matcher, outputs, history>>

\* Lines 182-187.
StopTyping ==
  /\ Press("stop")
  /\ is_typing' = FALSE
  /\ current_position' = 0
  /\ stopped' = TRUE
  /\ typedAtStop' = Len(typed)
  /\ UNCHANGED <<widget, call, min_wpm, max_wpm, typing_thread,
                 ignore_leading_whitespace, matcher, threads, gui, outputs,
                 paused>>

\* Lines 193-196 with set_language line 131 and _compile_patterns line 24:
\* the language is set and the list of the matcher is emptied.  The handler
\* builds the new list in place, and the scan thread runs between its steps.
OnLanguageChange(selected_language) ==
  /\ Press("language")
  /\ language' = Lower(selected_language)
  /\ compiled_patterns' = <<>>
  /\ gui' = "compile_language"
  /\ UNCHANGED <<widget, call, globals, ignore_leading_whitespace, threads,
                 outputs, paused, stopped,
                 typedAtStop>>

\* One loop of _compile_patterns has appended its entries.
CompileStep(from, ids, to) ==
  /\ gui = from
  /\ compiled_patterns' = compiled_patterns \o ids
  /\ gui' = to
  /\ UNCHANGED <<widget, call, globals, ignore_leading_whitespace, language,
                 threads, outputs, history>>

\* pattern_matcher.py lines 27-56.
CompileLanguage ==
  CompileStep("compile_language", LanguageIds(language), "compile_operators")

\* pattern_matcher.py lines 59-74.
CompileOperators ==
  CompileStep("compile_operators", OperatorIds, "compile_punctuation")

\* pattern_matcher.py lines 77-92.
CompilePunctuation ==
  CompileStep("compile_punctuation", PunctuationIds, "compile_sort")

\* pattern_matcher.py line 95, and the handler returns (main.py 198-199).
CompileSort ==
  /\ gui = "compile_sort"
  /\ compiled_patterns' = SortByLength(compiled_patterns)
  /\ gui' = "idle"
  /\ UNCHANGED <<widget, call, globals, ignore_leading_whitespace, language,
                 threads, outputs, history>>

\* ---- the specification: any button presses against the scan thread ----
ScanStep ==
  \E t \in ThreadIds :
    \/ ScanInit(t)
    \/ ScanLoop(t)
    \/ ScanDirective(t)
    \/ ScanSkipDirective(t)
    \/ ScanRead(t)
    \/ ScanSkip(t)
    \/ ScanSkipStore(t)
    \/ ScanPattern(t)
    \/ ScanFor(t)
    \/ ScanForRead(t)
    \/ ScanForType(t)
    \/ ScanForAdvance(t)
    \/ ScanForAdvanceStore(t)
    \/ ScanType(t)
    \/ ScanAdvance(t)
    \/ ScanAdvanceStore(t)
    \/ ScanReturn(t)

Next ==
  \/ \E a, b \in WpmEntries : StartTyping(a, b)
  \/ StartWake
  \/ PauseTyping
  \/ ContinueTyping
  \/ ContinueWake
  \/ StopTyping
  \/ \E selected_language \in LanguageNames : OnLanguageChange(selected_language)
  \/ CompileLanguage
  \/ CompileOperators
  \/ CompilePunctuation
  \/ CompileSort
  \/ ScanStep

Spec == Init /\ [][Next]_vars

\* The scan thread is an operating-system thread and each of its sleeps
\* ends: it always takes its next step.
FairSpec == Spec /\ WF_vars(ScanStep)

\* ---- the specification of one uninterrupted run: start is pressed once,
\* with valid entries, and the scan runs to its end over any text made of at
\* most MaxSegments of the segments below ----
MaxSegments == 3

Segments ==
  { <<"a">>, <<" ">>, <<"\n">>, <<"\n", " ", "\t">>, <<"{">>, <<"i", "f">>, <<"+", "=">>,
    Directive(<<"2">>), Directive(<<"0", ".", "5">>), Directive(<<"9", "9", "9">>) }

RECURSIVE Concatenations(_)
Concatenations(n) ==
  IF n = 0 THEN {<<>>}
  ELSE LET shorter == Concatenations(n - 1)
       IN  shorter \cup {s \o g : s \in shorter, g \in Segments}

RunTexts == Concatenations(MaxSegments)

InitRun == widget \in RunTexts /\ call = NoCall /\ InitCommon

StartRun == nops = 0 /\ StartTyping(IntEntry(40), IntEntry(40))

NextRun == StartRun \/ StartWake \/ ScanStep

SpecRun == InitRun /\ [][NextRun]_vars

\* The same run from the window as it opens, with the widget empty: the user
\* puts a text into the widget and presses start.
PasteText(content) ==
  /\ widget = <<>> /\ nops = 0 /\ gui = "idle"
  /\ widget' = content
  /\ UNCHANGED <<call, globals, ignore_leading_whitespace, matcher, threads,
                 gui, outputs, history>>

\* The texts pasted: the shorter ones of RunTexts and, for the leading
\* whitespace, an indented line between any two segments.
PastedTexts ==
  (Concatenations(MaxSegments - 1) \ {<<>>})
    \cup {s \o <<"\n", " ", "\t">> \o g : s, g \in Segments}

InitPaste == widget = <<>> /\ call = NoCall /\ InitCommon

NextPaste ==
  \/ \E content \in PastedTexts : PasteText(content)
  \/ StartRun
  \/ StartWake
  \/ ScanStep

\* The scan thread is an operating-system thread: it always takes its next
\* step, and each of its sleeps ends.
FairSpecRun == InitPaste /\ [][NextPaste]_vars /\ WF_vars(ScanStep)

\* ---- what the claims speak of ----
\* The text auto_type scans: the snapshot line 49 takes of the widget.
ScannedText == Strip(WidgetGet)

\* No handler is running and no scan thread is alive.
AtRest == gui = "idle" /\ AliveThreads = {}

\* A scan was started and has run to the end of the text.
Finished == AtRest /\ typing_thread # 0 /\ current_position = Len(ScannedText)

\* Position k of text lies inside the span of a well-formed directive.
InDirective(text, k) ==
  \E j \in 1..Len(FindIter(text, 0)) :
    FindIter(text, 0)[j].start <= k /\ k < FindIter(text, 0)[j].end

\* Position k of text holds a space or tab and only spaces and tabs lie
\* between the start of its line and k.
InLeadingRun(text, k) ==
  \E s \in 0..k :
    /\ s = 0 \/ CharAt(text, s - 1) = "\n"
    /\ \A j \in s..k : IsBlank(CharAt(text, j))

\* text from position p on, with the leading spaces and tabs of every line
\* removed.
RECURSIVE WithoutLeadingBlanksFrom(_, _)
WithoutLeadingBlanksFrom(text, p) ==
  IF p >= Len(text) THEN <<>>
  ELSE (IF InLeadingRun(text, p) THEN <<>> ELSE <<CharAt(text, p)>>)
         \o WithoutLeadingBlanksFrom(text, p + 1)

WithoutLeadingBlanks(text) == WithoutLeadingBlanksFrom(text, 0)

\* The clamped durations of the directives of text, in text order.
DirectiveDurations(text) ==
  LET ds == find_all_directives(pause_parser, text)
  IN  [k \in 1..Len(ds) |-> ds[k].duration]

\* The output of the scan loop of auto_type run from position p with the
\* given at_line_start to the end of text, with no other thread acting: a
\* directive is jumped over, a leading blank is skipped, and a pattern match
\* or else the single character is emitted.
RECURSIVE ScanOutput(_, _, _)
ScanOutput(text, p, at_line_start) ==
  IF p >= Len(text) THEN <<>>
  ELSE LET d == find_directive_at_position(pause_parser, text, p)
           c == CharAt(text, p)
           m == find_pattern_at_position(compiled_patterns, text, p)
           n == IF m.found THEN m.length ELSE 1
           out == Slice(text, p, p + n)
       IN  IF d.found
           THEN ScanOutput(text, d.end_position,
                           IF d.end_position > 0 /\ d.end_position < Len(text)
                           THEN CharAt(text, d.end_position - 1) = "\n"
                           ELSE at_line_start)
           ELSE IF SkipsLeadingWhitespace(at_line_start, c)
           THEN ScanOutput(text, p + 1, at_line_start)
           ELSE out \o ScanOutput(text, p + n,
                         \/ \E k \in 1..Len(out) : out[k] = "\n"
                         \/ at_line_start /\ IsBlank(c))

\* The output of a run over text that is neither paused nor stopped.
UninterruptedOutput(text) == ScanOutput(text, 0, TRUE)

\* The scan thread produces UninterruptedOutput in an uninterrupted run.
RunOutputIsUninterruptedOutput ==
  (Finished /\ ~paused /\ ~stopped) => typed = UninterruptedOutput(ScannedText)

\* ---- the methods of the parser and of the matcher called directly, as the
\* tests call them: the arguments are drawn from the sets below and the
\* call and what it returned are kept in call ----
program == <<widget, globals, ignore_leading_whitespace, matcher, threads,
             gui, outputs, history>>

Returned(fn, self, text, arg, result) ==
  /\ call.fn = "none"
  /\ call' = [fn |-> fn, self |-> self, text |-> text, arg |-> arg,
           result |-> result]

\* The parser of main.py and one constructed with bounds of its own.
Parsers == {pause_parser, PauseDirectiveParser(1000, 5000)}

\* The texts given to the parser: an opening, a body of at most MaxBody
\* pieces and a closing, after nothing or a brace.
MaxBody == 2

BodyPieces ==
  { <<"7">>, <<"0">>, <<"7", ".", "5">>, <<".">>, <<".", "5">>, <<"-">>,
    <<" ">>, <<"a">> }

RECURSIVE Bodies(_)
Bodies(n) ==
  IF n = 0 THEN {<<>>}
  ELSE LET shorter == Bodies(n - 1)
       IN  shorter \cup {b \o g : b \in shorter, g \in BodyPieces}

Openings ==
  { DirectiveOpen,
    <<"{","{","p","a","u","s","e",":">>,
    <<"{","{"," ","P","A","U","S","E",":">> }

Closings == { DirectiveClose, <<"}">>, <<" ","}","}">> }

SingleTexts ==
  { pre \o open \o body \o close :
      pre \in {<<>>, <<"{">>}, open \in Openings, body \in Bodies(MaxBody),
      close \in Closings }

\* Texts with two directives or tokens like them: next to each other, with
\* a character between them, and one inside the other.
Tokens ==
  { Directive(<<"2">>), Directive(<<"7", "7">>), Directive(<<"0", ".", "5">>),
    Directive(<<>>), <<"{", "P", "A", "U", "S", "E", ":", "2", "}">> }

SequenceTexts ==
  { a \o mid \o b \o post :
      a \in Tokens, mid \in {<<>>, <<"a">>, <<"{">>}, b \in Tokens,
      post \in {<<>>, <<"}">>, <<"\n", "b">>} }

NestedTexts ==
  { DirectiveOpen \o head \o inner \o tail \o DirectiveClose :
      head \in {<<>>, <<"1">>, <<"1", ".">>}, inner \in Tokens,
      tail \in {<<>>, <<"5">>} }

ParserTexts == SingleTexts \cup SequenceTexts \cup NestedTexts

InitParser ==
  /\ widget = <<>>
  /\ InitCommon
  /\ call \in {[NoCall EXCEPT !.text = t] : t \in ParserTexts}

\* parser.find_directive_at_position(text, position)
FindDirectiveAtPosition(self, position) ==
  /\ Returned("find_directive_at_position", self, call.text, position,
              find_directive_at_position(self, call.text, position))
  /\ UNCHANGED program

\* parser.find_all_directives(text)
FindAllDirectives(self) ==
  /\ Returned("find_all_directives", self, call.text, 0,
              find_all_directives(self, call.text))
  /\ UNCHANGED program

\* parser.remove_all_directives(text)
RemoveAllDirectives(self) ==
  /\ Returned("remove_all_directives", self, call.text, 1,
              remove_all_directives(call.text))
  /\ UNCHANGED program

\* parser.remove_all_directives(cleaned), of the text the call before
\* returned.
RemoveAllDirectivesAgain(self) ==
  /\ call.fn = "remove_all_directives" /\ call.arg = 1 /\ call.self = self
  /\ call' = [call EXCEPT !.text = call.result, !.arg = 2,
                          !.result = remove_all_directives(call.result)]
  /\ UNCHANGED program

\* parser.get_total_pause_time(text)
GetTotalPauseTime(self) ==
  /\ Returned("get_total_pause_time", self, call.text, 0,
              get_total_pause_time(self, call.text))
  /\ UNCHANGED program

\* parser.get_directive_count(text)
GetDirectiveCount(self) ==
  /\ Returned("get_directive_count", self, call.text, 0,
              get_directive_count(self, call.text))
  /\ UNCHANGED program

\* has_pause_directives(text), the function of the module.
HasPauseDirectives ==
  /\ Returned("has_pause_directives", 0, call.text, 0,
              has_pause_directives(call.text))
  /\ UNCHANGED program

NextParser ==
  \/ \E self \in Parsers, position \in 0..Len(call.text) :
       FindDirectiveAtPosition(self, position)
  \/ \E self \in Parsers : FindAllDirectives(self)
  \/ \E self \in Parsers : RemoveAllDirectives(self)
  \/ \E self \in Parsers : RemoveAllDirectivesAgain(self)
  \/ \E self \in Parsers : GetTotalPauseTime(self)
  \/ \E self \in Parsers : GetDirectiveCount(self)
  \/ HasPauseDirectives

SpecParser == InitParser /\ [][NextParser]_vars

\* The durations given to validate_duration: every half second from one
\* second below zero up to MaxHalfSeconds half seconds.
MaxHalfSeconds == 130

Durations == {500 * k : k \in -2..MaxHalfSeconds}

InitValidate == widget = <<>> /\ InitCommon /\ call = NoCall

\* parser.validate_duration(duration)
ValidateDuration(self, duration) ==
  /\ Returned("validate_duration", self, <<>>, duration,
              validate_duration(self, duration))
  /\ UNCHANGED program

NextValidate ==
  \E self \in Parsers, duration \in Durations : ValidateDuration(self, duration)

SpecValidate == InitValidate /\ [][NextValidate]_vars

\* ---- one uninterrupted run over a pause-like token that is not a
\* directive, alone or followed by a directive and a character ----
MalformedTokens ==
  { <<"{","{","P","A","U","S","E",":","a","b","c","}","}">>,
    <<"{","{","P","A","U","S","E",":","}","}">>,
    <<"{","{","p","a","u","s","e",":","2","}","}">>,
    <<"{","{"," ","P","A","U","S","E",":","2"," ","}","}">>,
    <<"{","{","P","A","U","S","E",":","-","5","}","}">>,
    <<"{","{","P","A","U","S","E",":","1",".","2",".","3","}","}">>,
    <<"{","P","A","U","S","E",":","2","}">> }

\* A token alone, before a directive, and on an indented second line.
MalformedTexts ==
  MalformedTokens
    \cup {tok \o Directive(<<"2">>) \o <<"a">> : tok \in MalformedTokens}
    \cup {<<"a", "\n", " ">> \o tok : tok \in MalformedTokens}

InitMalformed == widget \in MalformedTexts /\ call = NoCall /\ InitCommon

SpecMalformed == InitMalformed /\ [][NextRun]_vars

\* ---- the matcher called directly: constructed for a language, switched
\* with the language menu, and asked for the pattern at a position of a text
\* of at most MaxTokens pieces ----
MaxTokens == 2

TokenPieces ==
  { <<"i","n","t">>, <<"e">>, <<"=">>, <<"{">>,
    <<"c","o","l","o","r",":">>, <<"L","i","s","t","<",">">>,
    <<"@","O","v","e","r","r","i","d","e">> }

RECURSIVE TokenTexts(_)
TokenTexts(n) ==
  IF n = 0 THEN {<<>>}
  ELSE LET shorter == TokenTexts(n - 1)
       IN  shorter \cup {s \o g : s \in shorter, g \in TokenPieces}

MatcherTexts == TokenTexts(MaxTokens)

\* The names a matcher is constructed with.
ConstructorNames == {"java", "Java", "CSS", "Python"}

InitMatcher ==
  /\ widget = <<>>
  /\ call = NoCall
  /\ InitWindow
  /\ ~ignore_leading_whitespace
  /\ \E name \in ConstructorNames : PatternMatcherInit(name)

\* matcher.find_pattern_at_position(text, position), between two handlers.
FindPatternAtPosition(text, position) ==
  /\ gui = "idle"
  /\ Returned("find_pattern_at_position",
              [language |-> language, compiled_patterns |-> compiled_patterns],
              text, position,
              find_pattern_at_position(compiled_patterns, text, position))
  /\ UNCHANGED program

\* The language is switched before the matcher is asked.
SwitchLanguage ==
  /\ call.fn = "none"
  /\ \E selected_language \in LanguageNames : OnLanguageChange(selected_language)

NextMatcher ==
  \/ SwitchLanguage
  \/ CompileLanguage
  \/ CompileOperators
  \/ CompilePunctuation
  \/ CompileSort
  \/ \E text \in MatcherTexts :
       \E position \in 0..Len(text) : FindPatternAtPosition(text, position)

SpecMatcher == InitMatcher /\ [][NextMatcher]_vars


\* ---- start pressed with any entries in the two WPM fields, and the scan
\* that follows ----
\* The entries: numbers in range, a zero, a negative number, and text that
\* is no number.
SpeedEntries == {IntEntry(40), IntEntry(90), IntEntry(0), IntEntry(-40), BadEntry}

\* A text with a plain character, an indented line, a directive and a
\* keyword of three characters.
SpeedTexts ==
  { <<"a", "\n", " ">> \o Directive(<<"2">>) \o <<"i", "n", "t">> }

InitSpeed == widget \in SpeedTexts /\ call = NoCall /\ InitCommon

NextSpeed ==
  \/ \E a, b \in SpeedEntries : StartTyping(a, b)
  \/ StartWake
  \/ ScanStep

SpecSpeed == InitSpeed /\ [][NextSpeed]_vars

\* ---- the buttons, the scan thread and the user's edits of the text ----
\* The text widget is editable whenever the GUI thread serves events: here
\* the user deletes the end of the text, down to one of the shorter texts.
ShortenedTexts == {<<"a">>}

EditWidget(content) ==
  /\ gui = "idle"
  /\ Len(content) < Len(widget)
  /\ widget' = content
  /\ UNCHANGED <<call, globals, ignore_leading_whitespace, matcher, threads,
                 gui, outputs, history>>

NextEdit ==
  \/ \E a, b \in WpmEntries : StartTyping(a, b)
  \/ StartWake
  \/ PauseTyping
  \/ ContinueTyping
  \/ ContinueWake
  \/ StopTyping
  \/ \E content \in ShortenedTexts : EditWidget(content)
  \/ ScanStep

SpecEdit == Init /\ [][NextEdit]_vars
\* ---- the claims ----
\* The positions in typedAt are strictly increasing.
TypedInOrder == \A j \in 1..Len(typedAt) - 1 : typedAt[j] < typedAt[j + 1]

\* C1: a run that is neither paused nor stopped, with
\* ignore_leading_whitespace off, once it has reached the end of the text,
\* has emitted exactly remove_all_directives(text), each character once and
\* in order, and has slept once per directive, in text order, for the
\* directive's clamped duration.
C1_UninterruptedRunEmitsTextWithoutDirectives ==
  (Finished /\ ~paused /\ ~stopped /\ ~ignore_leading_whitespace) =>
    /\ typed = remove_all_directives(ScannedText)
    /\ TypedInOrder
    /\ sleeps = DirectiveDurations(ScannedText)

\* A finished run over a text with two directives of different durations
\* and characters to emit.
C1_Witness ==
  /\ Finished /\ ~paused /\ ~stopped /\ ~ignore_leading_whitespace
  /\ Len(sleeps) >= 2 /\ sleeps[1] # sleeps[2]
  /\ typed # <<>>
  /\ Len(typed) < Len(ScannedText)

\* C9: for a text without directives and a run that is neither paused nor
\* stopped, the output is the text without the leading spaces and tabs of
\* every line when ignore_leading_whitespace is on, and the text itself when
\* it is off.
C9_LeadingWhitespaceRemovedPerLine ==
  (Finished /\ ~paused /\ ~stopped /\ FindIter(ScannedText, 0) = <<>>) =>
    typed = IF ignore_leading_whitespace
            THEN WithoutLeadingBlanks(ScannedText)
            ELSE ScannedText

\* A finished run with the option on over a text whose second line is
\* indented, and one with the option off over a text with an indented line.
C9_Witness ==
  /\ Finished /\ FindIter(ScannedText, 0) = <<>>
  /\ \E k \in 1..Len(ScannedText) - 1 :
       ScannedText[k] = "\n" /\ IsBlank(ScannedText[k + 1])
  /\ ignore_leading_whitespace
  /\ Len(typed) < Len(ScannedText)
  /\ \E k \in 1..Len(typed) : typed[k] = "\n"

\* C2: no character inside the span of a well-formed directive of the text
\* is ever passed to keyboard.type, whatever the buttons pressed.
C2_NoDirectiveCharacterTyped ==
  \A j \in 1..Len(typedAt) : ~InDirective(ScannedText, typedAt[j])

\* C3: a run with ignore_leading_whitespace on that was paused and resumed,
\* and never stopped, has at its end emitted what an uninterrupted run emits.
C3_ResumedRunEmitsUninterruptedOutput ==
  (Finished /\ ignore_leading_whitespace /\ paused /\ ~stopped) =>
    typed = UninterruptedOutput(ScannedText)

\* C4: once stop has returned and the scan thread is at rest, the position
\* is 0 and is_typing is false.
C4_StopLeavesIdleAtZero ==
  (lastOp = "stop" /\ AtRest) => (current_position = 0 /\ ~is_typing)

\* C6: a run that reached the end of the text without pause or stop has
\* cleared is_typing.
C6_CompletionClearsRunningFlag ==
  (Finished /\ ~paused /\ ~stopped) => ~is_typing

\* C7: at most one scan thread is alive.
C7_AtMostOneScanThread == Cardinality(AliveThreads) <= 1

\* Continue has just started a new thread after an earlier one had typed.
C7_Witness ==
  /\ lastOp = "continue" /\ gui = "idle"
  /\ typing_thread # 0 /\ threads[typing_thread].pc = "init"
  /\ typed # <<>>
  /\ Cardinality(AliveThreads) = 1

\* C8: start pressed while is_typing is set changes none of is_typing,
\* current_position, min_wpm, max_wpm, typing_thread and the threads, and
\* starts no handler sleep.
C8_StartWhileRunningIsNoOp ==
  [][(nops' = nops + 1 /\ lastOp' = "start" /\ is_typing)
       => UNCHANGED <<globals, threads, gui>>]_vars

\* Start was pressed, with no pause or stop before it, after the scan had
\* already typed: the flag was set when it was pressed.
C8_Witness ==
  /\ lastOp = "start" /\ nops >= 2 /\ ~paused /\ ~stopped
  /\ typedAtOp > 0 /\ is_typing /\ gui = "idle"

\* C10: every position skipped as leading whitespace was skipped with
\* ignore_leading_whitespace on and has only spaces and tabs between the
\* start of its line and itself.
C10_OnlyLeadingWhitespaceSkipped ==
  \A j \in 1..Len(skippedAt) :
    ignore_leading_whitespace /\ InLeadingRun(ScannedText, skippedAt[j])

\* C5: pause changes nothing but is_typing (and not the position); as long
\* as no other button follows it, at most one more character is emitted, the
\* scan thread comes to its end, and from then on the position stays as it
\* is.
C5_PauseStopsScanWithinOneCharacter ==
  /\ [][(nops' = nops + 1 /\ lastOp' = "pause")
          => UNCHANGED <<current_position, min_wpm, max_wpm, typing_thread,
                         threads, gui, outputs>>]_vars
  /\ [](lastOp = "pause" => Len(typed) - typedAtOp <= 1)
  /\ [](lastOp = "pause" => <>(lastOp # "pause" \/ AliveThreads = {}))
  /\ [][(lastOp = "pause" /\ lastOp' = "pause" /\ AliveThreads = {})
          => (current_position' = current_position /\ AliveThreads' = {})]_vars

\* Pause was pressed while the scan was typing, one more character came out
\* after it, and the thread has ended before the end of the text.
C5_Witness ==
  /\ lastOp = "pause" /\ nops = 2 /\ paused
  /\ typedAtOp > 0 /\ Len(typed) = typedAtOp + 1
  /\ AtRest /\ ~is_typing
  /\ current_position > 0 /\ current_position < Len(ScannedText)

\* ---- the directive grammar, as the specification words it ----
\* text[p:e] is '{{PAUSE:', one or more digits, optionally '.' and one or
\* more digits, and '}}'.
GrammarSpan(text, p, e) ==
  /\ HasPrefixAt(text, p, <<"{","{","P","A","U","S","E",":">>)
  /\ e <= Len(text)
  /\ HasPrefixAt(text, e - 2, <<"}","}">>)
  /\ \E a \in (p + 9)..(e - 2) :
       /\ \A k \in (p + 8)..(a - 1) : CharAt(text, k) \in Digits
       /\ \/ a = e - 2
          \/ /\ e - 2 > a + 1
             /\ CharAt(text, a) = "."
             /\ \A k \in (a + 1)..(e - 3) : CharAt(text, k) \in Digits

GrammarAt(text, p) == \E e \in p..Len(text) : GrammarSpan(text, p, e)

\* C12: find_directive_at_position(text, p) returns a directive exactly when
\* the text from p on begins with '{{PAUSE:', digits, optionally '.' and
\* digits, and '}}'.
C12_DirectiveFoundIffGrammarAtPosition ==
  call.fn = "find_directive_at_position" =>
    (call.result.found <=> GrammarAt(call.text, call.arg))

\* A directive with a fraction was found at a position other than 0.
C12_Witness ==
  /\ call.fn = "find_directive_at_position"
  /\ call.result.found /\ call.arg > 0
  /\ \E k \in 1..Len(call.result.raw_text) : call.result.raw_text[k] = "."

\* clamp(d, lo, hi)
Clamp(d, lo, hi) ==
  LET capped == IF d < hi THEN d ELSE hi
  IN  IF capped > lo THEN capped ELSE lo

\* C13: validate_duration(d) is clamp(d, min_duration, max_duration): the
\* minimum below it, the maximum above it, d itself in between.
C13_ValidateDurationIsClamp ==
  call.fn = "validate_duration" =>
    LET d == call.arg
        lo == call.self.min_duration
        hi == call.self.max_duration
    IN  /\ call.result = Clamp(d, lo, hi)
        /\ d < lo => call.result = lo
        /\ d > hi => call.result = hi
        /\ (lo <= d /\ d <= hi) => call.result = d

\* A duration below the minimum of a parser with bounds of its own.
C13_Witness ==
  /\ call.fn = "validate_duration"
  /\ call.self # pause_parser
  /\ call.arg > 0 /\ call.arg < call.self.min_duration
  /\ call.result = call.self.min_duration

\* C14: every directive find_directive_at_position or find_all_directives
\* returns has a duration between the parser's minimum and maximum.
C14_DirectiveDurationWithinBounds ==
  LET Within(d) == /\ call.self.min_duration <= d.duration
                   /\ d.duration <= call.self.max_duration
  IN  /\ (call.fn = "find_directive_at_position" /\ call.result.found)
           => Within(call.result)
      /\ call.fn = "find_all_directives"
           => \A k \in 1..Len(call.result) : Within(call.result[k])

\* The default parser has returned a directive written with 77 seconds,
\* with the maximum of 60 seconds as its duration.
C14_Witness ==
  /\ call.fn = "find_all_directives" /\ call.self = pause_parser
  /\ Len(call.result) = 1
  /\ call.result[1].raw_text = <<"{","{","P","A","U","S","E",":","7","7","}","}">>
  /\ call.result[1].duration = 60000

\* C15: a directive find_directive_at_position(text, p) reports starts at p,
\* its span is the matched syntax and raw_text is that span of the text; at a
\* position strictly inside a directive nothing is reported.
C15_DirectiveAnchoredAtPosition ==
  call.fn = "find_directive_at_position" =>
    /\ call.result.found =>
         /\ call.result.start_position = call.arg
         /\ GrammarSpan(call.text, call.arg, call.result.end_position)
         /\ call.result.raw_text =
              Slice(call.text, call.result.start_position, call.result.end_position)
         /\ Len(call.result.raw_text) =
              call.result.end_position - call.result.start_position
    /\ (\E s \in 0..(call.arg - 1), e \in (call.arg + 1)..Len(call.text) :
          GrammarSpan(call.text, s, e)) => ~call.result.found

\* The method was called at a position strictly inside a directive that
\* itself follows a brace, and reported nothing.
C15_Witness ==
  /\ call.fn = "find_directive_at_position"
  /\ GrammarAt(call.text, 1)
  /\ call.arg > 1
  /\ \E e \in (call.arg + 1)..Len(call.text) : GrammarSpan(call.text, 1, e)
  /\ ~call.result.found

\* C11: in a run over a pause-like token that fails the grammar, no
\* directive sleep is made for the token and, at the end of the run, every
\* character of the token has been typed, in order; a directive after the
\* token is still consumed, and a token on an indented line is typed after
\* the indentation has been typed or skipped.
C11_MalformedTokenTypedLiterally ==
  \A tok \in MalformedTokens :
    /\ ScannedText = tok => sleeps = <<>>
    /\ (Finished /\ ScannedText = tok) => typed = tok
    /\ (Finished /\ ScannedText = tok \o Directive(<<"2">>) \o <<"a">>)
         => (typed = tok \o <<"a">> /\ sleeps = <<2000>>)
    /\ (Finished /\ ScannedText = <<"a", "\n", " ">> \o tok)
         => /\ sleeps = <<>>
            /\ typed = IF ignore_leading_whitespace
                       THEN <<"a", "\n">> \o tok
                       ELSE <<"a", "\n", " ">> \o tok

\* The run over {{PAUSE:abc}} has ended with its 13 characters typed.
C11_Witness ==
  /\ Finished
  /\ ScannedText = <<"{","{","P","A","U","S","E",":","a","b","c","}","}">>
  /\ Len(typed) = 13 /\ typed = ScannedText
  /\ sleeps = <<>>


\* A token is alphanumeric when every character of it is.
IsAlphanumericToken(tok) == \A k \in 1..Len(tok) : IsAlnum(tok[k])

\* The token tok occurs in text starting exactly at p: its characters are
\* there, and an alphanumeric token starts and ends on a word boundary.
Occurs(tok, text, p) ==
  /\ HasPrefixAt(text, p, tok)
  /\ IsAlphanumericToken(tok) =>
       /\ WordBoundary(text, p)
       /\ WordBoundary(text, p + Len(tok))

\* The tokens of the matcher's list that occur in text at p.
OccurringTokens(compiled, text, p) ==
  {Rule(compiled[k]).pattern : k \in {j \in 1..Len(compiled) :
                                       Occurs(Rule(compiled[j]).pattern, text, p)}}

\* C16: find_pattern_at_position(text, p) returns the longest token of the
\* compiled list that occurs in text at p, reports no match only if no token
\* of the list occurs at p, and the reported length is the length of the
\* matched text, which is text[p:p+length].
C16_LongestOccurringTokenReturned ==
  call.fn = "find_pattern_at_position" =>
    LET occurring == OccurringTokens(call.self.compiled_patterns, call.text, call.arg)
        matched_text == Rule(call.result.id).pattern
    IN  /\ call.result.found <=> occurring # {}
        /\ call.result.found =>
             /\ matched_text \in occurring
             /\ \A tok \in occurring : Len(tok) <= Len(matched_text)
             /\ call.result.length = Len(matched_text)
             /\ matched_text = Slice(call.text, call.arg, call.arg + call.result.length)

\* The place of the entry id in the list ids.
InsertionIndex(ids, id) == CHOOSE k \in 1..Len(ids) : ids[k] = id

\* The list holds the entries _compile_patterns appends for lang (language
\* entries, then operators, then punctuation), longest token first, the
\* entries of each length in the order they were appended.
OrderedByLength(compiled, lang) ==
  LET appended == AppendedPatterns(lang)
      OfLength(ids, n) == SelectSeq(ids, LAMBDA id : PatternLength(id) = n)
  IN  /\ Len(compiled) = Len(appended)
      /\ \A k \in 1..(Len(compiled) - 1) :
           PatternLength(compiled[k]) >= PatternLength(compiled[k + 1])
      /\ \A n \in 0..MaxPatternLength(appended) :
           OfLength(compiled, n) = OfLength(appended, n)

\* C17: after construction and after every set_language the compiled list is
\* ordered by non-increasing token length with ties in insertion order; a
\* lookup never returns a token when a longer entry also matches at the
\* position, and of the entries with the returned token it returns the one
\* appended first.
C17_CompiledListLongestFirstStable ==
  /\ gui = "idle" => OrderedByLength(compiled_patterns, language)
  /\ (call.fn = "find_pattern_at_position" /\ call.result.found) =>
       LET compiled == call.self.compiled_patterns
           appended == AppendedPatterns(call.self.language)
       IN  \A k \in 1..Len(compiled) :
             RegexMatch(Rule(compiled[k]), call.text, call.arg) =>
               /\ PatternLength(compiled[k]) <= call.result.length
               /\ Rule(compiled[k]).pattern = Rule(call.result.id).pattern =>
                    InsertionIndex(appended, call.result.id)
                      <= InsertionIndex(appended, compiled[k])

\* After a set_language, a lookup at '==' returned '==' although '=' matches
\* there too.
C17_Witness ==
  /\ lastOp = "language"
  /\ call.fn = "find_pattern_at_position"
  /\ call.text = <<"=", "=">> /\ call.arg = 0
  /\ call.result.found /\ call.result.length = 2
  /\ \E k \in 1..Len(call.self.compiled_patterns) :
       /\ Rule(call.self.compiled_patterns[k]).pattern = <<"=">>
       /\ RegexMatch(Rule(call.self.compiled_patterns[k]), call.text, call.arg)

\* An entry of a language's own table (its category has no prefix).
IsLanguageEntry(id) == Len(Rule(id).category) = 1

\* A token is symbolic when no character of it is alphanumeric.
IsSymbolicToken(tok) == \A k \in 1..Len(tok) : ~IsAlnum(tok[k])

\* C18: a lookup returns an alphanumeric language token only where the token
\* starts and ends on a word boundary; wherever the characters of a symbolic
\* token of the list are at the position, the lookup returns a match at
\* least that long, whatever the neighbouring characters are.
C18_KeywordsOnWordBoundariesSymbolsAnywhere ==
  call.fn = "find_pattern_at_position" =>
    LET compiled == call.self.compiled_patterns
        returned == Rule(call.result.id)
    IN  /\ ( /\ call.result.found
             /\ IsLanguageEntry(call.result.id)
             /\ IsAlphanumericToken(returned.pattern) )
           => /\ WordBoundary(call.text, call.arg)
              /\ WordBoundary(call.text, call.arg + Len(returned.pattern))
        /\ \A k \in 1..Len(compiled) :
             ( /\ IsSymbolicToken(Rule(compiled[k]).pattern)
               /\ HasPrefixAt(call.text, call.arg, Rule(compiled[k]).pattern) )
             => /\ call.result.found
                /\ call.result.length >= PatternLength(compiled[k])

\* The java matcher was asked at the start of 'inte', where 'int' is the
\* prefix of a longer identifier, and returned no match.
C18_Witness ==
  /\ call.fn = "find_pattern_at_position"
  /\ call.self.language = "java"
  /\ call.text = <<"i", "n", "t", "e">> /\ call.arg = 0
  /\ \E k \in 1..Len(call.self.compiled_patterns) :
       /\ Rule(call.self.compiled_patterns[k]).pattern = <<"i", "n", "t">>
       /\ IsLanguageEntry(call.self.compiled_patterns[k])
  /\ ~call.result.found

\* The key of LANGUAGE_PATTERNS a language name is, letter case set aside
\* ("none" when the name is no key).
KeyIgnoringCase(name) ==
  IF name \in {"java", "Java", "JAVA"} THEN "java"
  ELSE IF name \in {"javascript", "JavaScript"} THEN "javascript"
  ELSE IF name \in {"react", "React"} THEN "react"
  ELSE IF name \in {"css", "CSS", "Css"} THEN "css"
  ELSE "none"

\* The entries of a list, as a set.
Entries(ids) == {ids[k] : k \in 1..Len(ids)}

\* C20: a matcher constructed with or switched to a language always ends its
\* compilation; for a name that is no key of LANGUAGE_PATTERNS its list is
\* exactly the operator and punctuation entries, and for a name that is a
\* key in any letter case it is that key's entries and the universal ones.
C20_UnknownLanguageUniversalRulesOnly ==
  gui = "idle" =>
    LET key == KeyIgnoringCase(language)
        universal == Entries(OperatorIds) \cup Entries(PunctuationIds)
        own == IF key = "none" THEN {} ELSE Entries(LanguageIds(key))
    IN  /\ Entries(compiled_patterns) = own \cup universal
        /\ Len(compiled_patterns) = Cardinality(own \cup universal)
        /\ key # "none" => own # {}

\* The matcher was switched to Python, which has no table, and then found
\* the operator '==' with a list of the universal entries only.
C20_Witness ==
  /\ lastOp = "language" /\ gui = "idle"
  /\ KeyIgnoringCase(language) = "none"
  /\ Len(compiled_patterns) = Len(OperatorIds) + Len(PunctuationIds)
  /\ call.fn = "find_pattern_at_position"
  /\ call.text = <<"=", "=">> /\ call.arg = 0
  /\ call.result.found
  /\ Rule(call.result.id).category[1] = "operator_"

\* The list is the complete, sorted list of one language.
CompleteList(compiled) ==
  \E lang \in {"java"} \cup {Lower(name) : name \in LanguageNames} :
    compiled = CompilePatterns(lang)

\* C19: every lookup the scan thread makes, also while on_language_change is
\* executing set_language, iterates the complete list of the old language
\* or the complete, sorted list of the new one.
C19_LookupSeesCompleteList ==
  [][\A t \in ThreadIds : ScanPattern(t) => CompleteList(compiled_patterns)]_vars

\* An entry pair start_typing is to reject: one of them is no number, or is
\* zero or negative, or the minimum is above the maximum.
InvalidSpeedInput(a, b) ==
  \/ ~a.valid \/ ~b.valid
  \/ a.value <= 0 \/ b.value <= 0
  \/ a.value > b.value

\* C21: a start request with an invalid WPM entry is rejected and changes
\* nothing: min_wpm, max_wpm, is_typing, current_position, typing_thread and
\* the scan threads are as before, and the handler has returned.
C21_InvalidSpeedInputChangesNothing ==
  [][\A a, b \in SpeedEntries :
       (StartTyping(a, b) /\ InvalidSpeedInput(a, b))
         => /\ UNCHANGED <<min_wpm, max_wpm, is_typing, current_position,
                           typing_thread, threads>>
            /\ gui' = "idle"]_vars

\* The text a scan thread is scanning: its snapshot, which a thread at its
\* first line is about to take of the widget.
TextOf(t) == IF threads[t].pc = "init" THEN Strip(WidgetGet) ELSE threads[t].text

\* The thread is at a line that indexes its text at the position, or just
\* before it, with the position inside the text.
IndexInBounds(t) ==
  LET th == threads[t]
  IN  /\ th.pc = "init" =>
           (current_position > 0 => current_position - 1 < Len(TextOf(t)))
      /\ th.pc \in {"read", "for_read"} => current_position < Len(th.text)

\* C22: in every reachable state the position is between 0 and the length
\* of the text being scanned, and the scan is never about to index its text
\* outside of it, at text[position] or at text[position - 1].
C22_PositionWithinText ==
  /\ 0 <= current_position
  /\ \A t \in AliveThreads :
       /\ current_position <= Len(TextOf(t))
       /\ IndexInBounds(t)

\* C23: whenever a scan thread is at the head of its loop with text left to
\* scan, at_line_start is true if and only if the position is 0 or the
\* character before it is a newline.
C23_AtLineStartIffAfterNewline ==
  \A t \in AliveThreads :
    (threads[t].pc = "loop" /\ current_position < Len(threads[t].text)) =>
      (threads[t].at_line_start
         <=> LineStartAt(threads[t].text, current_position))

\* What a left-to-right scan with find_directive_at_position reports from
\* position p on: on a hit it jumps to the directive's end, else it advances
\* by one.
RECURSIVE AnchoredScan(_, _, _)
AnchoredScan(self, text, p) ==
  IF p >= Len(text) THEN <<>>
  ELSE LET d == find_directive_at_position(self, text, p)
       IN  IF d.found THEN <<d>> \o AnchoredScan(self, text, d.end_position)
           ELSE AnchoredScan(self, text, p + 1)

\* C24: find_all_directives(text) returns well-formed directives in strictly
\* increasing start order, each starting at or after the end of the one
\* before, one for every position where the grammar holds, and they are the
\* directives the anchored left-to-right scan reports.
C24_FindAllIsTheAnchoredScan ==
  call.fn = "find_all_directives" =>
    LET ds == call.result
    IN  /\ \A k \in 1..Len(ds) :
             /\ GrammarSpan(call.text, ds[k].start_position, ds[k].end_position)
             /\ ds[k].start_position < ds[k].end_position
             /\ k > 1 => ds[k].start_position >= ds[k - 1].end_position
        /\ \A p \in 0..Len(call.text) :
             GrammarAt(call.text, p) =>
               \E k \in 1..Len(ds) : ds[k].start_position = p
        /\ ds = AnchoredScan(call.self, call.text, 0)

\* Two directives next to each other were both found.
C24_Witness ==
  /\ call.fn = "find_all_directives"
  /\ Len(call.result) = 2
  /\ call.result[2].start_position = call.result[1].end_position
  /\ call.result[1].duration # call.result[2].duration

\* Position k of text lies inside one of the spans of directives.
InSpans(directives, k) ==
  \E j \in 1..Len(directives) :
    directives[j].start_position <= k /\ k < directives[j].end_position

\* The characters of text outside the spans of directives, in order.
RECURSIVE OutsideSpans(_, _, _)
OutsideSpans(text, directives, k) ==
  IF k >= Len(text) THEN <<>>
  ELSE (IF InSpans(directives, k) THEN <<>> ELSE <<CharAt(text, k)>>)
         \o OutsideSpans(text, directives, k + 1)

\* The raw texts of the first n directives put back into cleaned at their
\* start positions, from left to right.
RECURSIVE Reinserted(_, _, _)
Reinserted(cleaned, directives, n) ==
  IF n = 0 THEN cleaned
  ELSE LET before == Reinserted(cleaned, directives, n - 1)
           d == directives[n]
       IN  Slice(before, 0, d.start_position) \o d.raw_text
             \o Slice(before, d.start_position, Len(before))

\* C25: remove_all_directives(T) is T without the spans find_all_directives(T)
\* reports, every other character kept in order; putting the removed spans
\* back at their positions gives T, and a text without directives is returned
\* as it is.
C25_RemoveDeletesExactlyTheFoundSpans ==
  (call.fn = "remove_all_directives" /\ call.arg = 1) =>
    LET ds == find_all_directives(call.self, call.text)
    IN  /\ call.result = OutsideSpans(call.text, ds, 0)
        /\ Reinserted(call.result, ds, Len(ds)) = call.text
        /\ ds = <<>> => call.result = call.text

\* Two directives were removed from a text and the characters between and
\* after them were kept.
C25_Witness ==
  /\ call.fn = "remove_all_directives" /\ call.arg = 1
  /\ Len(find_all_directives(call.self, call.text)) = 2
  /\ call.result = <<"a", "\n", "b">>

\* C26: the text remove_all_directives returns contains no well-formed
\* directive, and removing the directives of that text again returns it
\* unchanged.
C26_RemoveLeavesNoDirective ==
  call.fn = "remove_all_directives" =>
    /\ \A p \in 0..Len(call.result) : ~GrammarAt(call.result, p)
    /\ call.arg = 2 => call.result = call.text

\* The positions of text where the grammar of a directive holds.
GrammarPositions(text) == {p \in 0..Len(text) : GrammarAt(text, p)}

\* C27: get_directive_count(text) is the number of directives
\* find_all_directives(text) returns, get_total_pause_time(text) the sum of
\* their clamped durations, and has_pause_directives(text) holds exactly when
\* there is a directive; the calls leave the program's state as it is.
C27_UtilitiesAgreeWithFindAll ==
  LET ds == find_all_directives(call.self, call.text)
      ClampedSum(n) ==
        LET RECURSIVE Sum(_)
            Sum(k) == IF k = 0 THEN 0
                      ELSE Sum(k - 1)
                             + Clamp(ds[k].duration, call.self.min_duration,
                                     call.self.max_duration)
        IN  Sum(n)
  IN  /\ call.fn = "get_directive_count" =>
           /\ call.result = Len(ds)
           /\ call.result = Cardinality(GrammarPositions(call.text))
      /\ call.fn = "get_total_pause_time" =>
           /\ call.result = ClampedSum(Len(ds))
           /\ call.result <= Len(ds) * call.self.max_duration
           /\ call.result >= Len(ds) * call.self.min_duration
      /\ call.fn = "has_pause_directives" =>
           (call.result <=> GrammarPositions(call.text) # {})
      /\ call.fn \in {"get_directive_count", "get_total_pause_time",
                      "has_pause_directives"} =>
           /\ widget = <<>> /\ AliveThreads = {} /\ typed = <<>>
           /\ current_position = 0 /\ ~is_typing

\* The total of a directive of 77 seconds and one of 2 seconds is 62
\* seconds with the default parser.
C27_Witness ==
  /\ call.fn = "get_total_pause_time" /\ call.self = pause_parser
  /\ call.text = Directive(<<"7", "7">>) \o Directive(<<"2">>)
  /\ call.result = 62000

\* C28: the delay before each character comes from a value of
\* random.uniform drawn for that character: no value is used for the sleeps
\* of two characters, also not inside a pattern match.
C28_DelayResampledForEveryCharacter ==
  \A t \in ThreadIds : threads[t].delay_uses <= 1

\* C29: once start or continue has returned with is_typing set and no pause
\* or stop has followed, a scan thread is alive or the text is finished.
C29_RunningFlagHasAScanThread ==
  (gui = "idle" /\ lastOp \in {"start", "continue"} /\ is_typing) =>
    (AliveThreads # {} \/ current_position >= Len(ScannedText))

\* C30: as long as stop is the last button pressed, no character is
\* emitted after it; and a start that follows a stop launches a new scan
\* thread, the only one alive, at position 0.
C30_StartAfterStopRunsFreshScan ==
  /\ [](lastOp = "stop" => Len(typed) = typedAtOp)
  /\ [][(StartWake /\ stopped /\ ~paused)
          => /\ current_position' = 0
             /\ threads'[typing_thread'].pc = "init"
             /\ AliveThreads' = {typing_thread'}]_vars

\* ---- C31 ----
\* The thread t is inside the character loop of a match, past the test at its
\* head: between reading a character and storing the advanced position.
InCharacter(t) ==
  threads[t].pc \in {"for_read", "for_type", "for_advance", "for_advance_store"}

\* The thread t leaves the character loop of a match in this step.
LeavesMatch(t) == threads[t].pc = "for" /\ threads'[t].pc = "loop"

\* C31 as stated: the running flag is observed only at the top of the scan
\* loop, so the character loop of a match is left only when every character
\* of the match has been emitted, and pause_after is slept only then.  A
\* match has begun to be emitted when i, the number of its characters
\* emitted, is positive.
C31_MatchEmittedWholeBeforeExit ==
  [][\A t \in ThreadIds :
       (LeavesMatch(t) /\ threads[t].i > 0)
         => threads[t].i = threads[t].pattern_length]_vars

\* C31 amended: the running flag is observed at the top of the scan loop and
\* again before each character of a match.  The character loop is left at its
\* head only, when the match is complete or the flag is off; a character that
\* has passed the head is emitted and the position advanced whatever the
\* flag; and pause_after is slept when the character loop ends, whether or
\* not the whole match was emitted.
C31_FlagObservedBeforeEachCharacter ==
  [][\A t \in ThreadIds :
       /\ LeavesMatch(t)
            => /\ threads[t].i >= threads[t].pattern_length \/ ~is_typing
               /\ threads'[t].events = threads[t].events
                    \o PauseEvents(Rule(threads[t].pattern_id).pause_after)
       /\ (InCharacter(t) /\ threads'[t] # threads[t])
            => \/ threads'[t].pc \in {"for_type", "for_advance",
                                      "for_advance_store", "for"}
               \/ threads'[t].pc = "dead" /\ threads[t].pc = "for_read"]_vars

\* A match was cut short by the flag after a character and its delay, and
\* pause_after was slept all the same.
C31_Witness ==
  \E t \in ThreadIds :
    LET events == threads[t].events
    IN  /\ threads[t].pc = "loop"
        /\ Len(events) >= 3
        /\ events[Len(events) - 2].kind = "type"
        /\ events[Len(events) - 1].kind = "delay"
        /\ events[Len(events)].kind = "sleep"

\* ---- C32 ----
\* C32: with ignore_leading_whitespace set, no space or tab is the first
\* character emitted or is emitted directly after an emitted newline, in a
\* run that is neither paused nor stopped, a directive at the start of a line
\* or inside its indentation included.
C32_NoBlankAtStartOfOutputLine ==
  (ignore_leading_whitespace /\ ~paused /\ ~stopped)
    => \A k \in 1..Len(typed) :
         IsBlank(typed[k]) => (k > 1 /\ typed[k - 1] # "\n")

\* ---- C33 ----
\* The positions of the text emitted since stop was last pressed (since the
\* beginning if it never was), in the order of their emission.
EmittedSinceStop == SubSeq(typedAt, typedAtStop + 1, Len(typedAt))

StrictlyIncreasing(seq) == \A k \in 1..(Len(seq) - 1) : seq[k] < seq[k + 1]

\* C33: between two presses of stop, whatever is pressed of start, pause
\* and continue, current_position never decreases and the positions of the
\* text are emitted in strictly increasing order, so none of them twice.
C33_NoDoubleTypingBetweenStops ==
  /\ [](StrictlyIncreasing(EmittedSinceStop))
  /\ [][~(nops' # nops /\ lastOp' = "stop")
         => current_position' >= current_position]_vars

\* ---- C34 ----
\* The snapshots line 49 can take of the widget in the runs with edits.
Snapshots == {Strip(w \o <<"\n">>) : w \in WidgetTexts \cup ShortenedTexts}

\* Everything emitted so far was read from text, and text is what every scan
\* thread past line 49 is scanning.
ScansOnly(text) ==
  /\ \A k \in 1..Len(typed) :
       typedAt[k] < Len(text) /\ typed[k] = CharAt(text, typedAt[k])
  /\ \A t \in ThreadIds :
       threads[t].pc \notin {"dead", "init"} => threads[t].text = text

\* C34: a session, from start until stop is pressed, scans one snapshot of
\* the widget, the one captured at start: an edit of the widget made while
\* the session is paused is not observed after continue.
C34_SessionScansOneSnapshot ==
  (~stopped /\ lastOp = "continue") => \E text \in Snapshots : ScansOnly(text)

\* ---- C35 ----
\* The button op is pressed in this step while is_typing is false.
PressedWhileNotTyping(op) ==
  nops' = nops + 1 /\ lastOp' = op /\ ~is_typing

\* What the claim says start and continue both do once their sleep is over:
\* the flag is set, the position is left as it is, and auto_type is started
\* in a new thread, unless the last thread is still alive, in which case it
\* is that thread that runs on.
LaunchesFromCurrentPosition ==
  /\ is_typing'
  /\ current_position' = current_position
  /\ IF typing_thread = 0 \/ threads[typing_thread].pc = "dead"
     THEN /\ typing_thread' \in ThreadIds
          /\ threads[typing_thread'].pc = "dead"
          /\ threads'[typing_thread'].pc = "init"
          /\ \A t \in ThreadIds \ {typing_thread'} : threads'[t] = threads[t]
     ELSE typing_thread' = typing_thread /\ threads' = threads

EntersLoop(t) == threads[t].pc = "init" /\ threads'[t].pc # "init"

MatchEvents(p, L, before, after) ==
  (IF before > 0 THEN <<[kind |-> "sleep", arg |-> before]>> ELSE <<>>)
    \o [k \in 1..(2 * L - 1) |->
          IF k % 2 = 1 THEN [kind |-> "type", arg |-> p + (k - 1) \div 2]
          ELSE [kind |-> "delay", arg |-> 0]]
    \o (IF after > 0 THEN <<[kind |-> "sleep", arg |-> after]>> ELSE <<>>)

\* The last n characters emitted.
LastTyped(n) == SubSeq(typed, Len(typed) - n + 1, Len(typed))

\* C37: in a run that is not interrupted, a step that finds a match of length
\* L at position p sleeps pause_before, emits the L characters text[p..p+L)
\* with a per-character delay after each but the last, then sleeps
\* pause_after, and leaves current_position at p + L; a character emitted
\* inside a match sets at_line_start if it is a newline and leaves it as it
\* is otherwise.
C37_MatchStepEventsInOrder ==
  [][\A t \in ThreadIds :
       LET th == threads[t]
           L == th.pattern_length
           p == th.match_start
       IN  /\ LeavesMatch(t)
                => /\ th.i = L /\ L >= 1
                   /\ threads'[t].events
                        = MatchEvents(p, L, Rule(th.pattern_id).pause_before,
                                      Rule(th.pattern_id).pause_after)
                   /\ current_position = p + L
                   /\ Len(typed) >= L
                   /\ LastTyped(L) = Slice(th.text, p, p + L)
           /\ (th.pc = "for_type" /\ threads'[t].pc = "for_advance")
                => threads'[t].at_line_start
                     = IF CharAt(th.text, th.current_char) = "\n" THEN TRUE
                       ELSE th.at_line_start]_vars

\* A match of two characters under a rule with both pauses has been typed:
\* sleep, character, delay, character, sleep.
C37_Witness ==
  \E t \in ThreadIds :
    LET events == threads[t].events
    IN  /\ threads[t].pc = "loop"
        /\ Len(events) = 5
        /\ events[1].kind = "sleep" /\ events[2].kind = "type"
        /\ events[3].kind = "delay" /\ events[4].kind = "type"
        /\ events[5].kind = "sleep"

\* ---- C38 ----
\* The thread t ends an iteration of the scan loop in this step.
EndsIteration(t) ==
  threads[t].pc \notin {"loop", "init"} /\ threads'[t].pc = "loop"

\* How far the iteration that t ends in this step has moved the position,
\* as the claim gives it: the length of the directive, the length of the
\* match, or 1 for a skipped or unmatched character.
IterationAdvance(t) ==
  LET th == threads[t]
  IN  CASE th.pc = "skip_directive" ->
             LET d == find_directive_at_position(pause_parser, th.text,
                                                 current_position)
             IN  d.end_position - d.start_position
        [] th.pc = "for" -> th.pattern_length
        [] OTHER -> 1

\* The position at which the iteration that t ends in this step began.
IterationStart(t) ==
  IF threads[t].pc = "for" THEN threads[t].match_start
  ELSE IF threads[t].pc = "skip_directive" THEN current_position
  ELSE threads[t].loaded

====
